---- MODULE Spec2Model ----
(***************************************************************************)
(* A model of the toyboy application: the persistence/share layer (the     *)
(* deploy endpoint, the experiences table, the share page), the            *)
(* code-generation endpoint with its output sanitizer, the translate and   *)
(* chat endpoints, the webhook proxy, the previewer's code rewriting, and  *)
(* the client (the page, the chat and the builder with their calls).       *)
(*                                                                         *)
(* Texts are sequences of tokens.  A token is a TLA+ string that stands    *)
(* for a fixed piece of text; the tokens are cut so that every literal of  *)
(* every regular expression of the source is a whole number of tokens and  *)
(* every character class of the source contains a token entirely or not at *)
(* all.  The tokens that are not spelled as themselves:                    *)
(*    "SP" a space, "NL" a newline, "DQ" a double quote, "BT" a backtick,  *)
(*    "BS" a backslash, "FENCE" three backticks.                           *)
(* No text of the model puts a backtick next to a fence, and no two of its *)
(* token sequences spell the same text.                                    *)
(***************************************************************************)
EXTENDS Integers, Sequences, FiniteSets, TLC

VARIABLES
    baseUrlEnv,     \* process.env.NEXT_PUBLIC_BASE_URL ("" when unset)
    experiences,    \* table public.experiences: id -> [code, json_schema]
    deployResp,     \* the last response of POST /api/deploy
    shared,         \* the successful deploy responses handed to clients
    fetchResp,      \* the last result of the share page
    env,            \* MODEL_PROVIDER and the two API credentials
    llmOut,         \* what the LLM provider answers to the next call
    genResp,        \* the last response of POST /api/generate-code
    genCalls,       \* the LLM calls made while that request was handled
    checkOut,       \* what the provider answers to the completion check
    chatResp,       \* the last response of POST /api/cupid-chat
    chatCalls,      \* the LLM calls made while that request was handled
    trReq,          \* the last request to POST /api/translate
    trResp,         \* the last response of POST /api/translate
    trCalls,        \* the LLM calls made while that request was handled
    home,           \* the state of the Home page (page.tsx 11-17)
    storage,        \* the local storage of the browser tab
    calls,          \* the network calls the client has in flight
    timers,         \* the pending timers of the chat, each with its transcript
    builder,        \* the state of the mounted BuilderEnvironment
    chat,           \* the state of the mounted CupidChat
    chain,          \* the latest user action that started a chain, and its calls
    proxyReq,       \* the body of the last request to the webhook proxy
    upstream,       \* what the webhook did with the request forwarded to it
    upstreamPosts,  \* the requests the proxy has made, each with URL and body
    proxyResp,      \* the last response of the webhook proxy
    preview         \* the previewer: its origin, its code, the sandbox's code

vars == <<baseUrlEnv, experiences, deployResp, shared, fetchResp,
          env, llmOut, genResp, genCalls, checkOut, chatResp, chatCalls,
          trReq, trResp, trCalls,
          home, storage, calls, timers, builder, chat, chain,
          proxyReq, upstream, upstreamPosts, proxyResp, preview>>

storeVars == <<baseUrlEnv, experiences, deployResp, shared, fetchResp>>
genVars == <<env, llmOut, genResp, genCalls>>
chatVars == <<checkOut, chatResp, chatCalls>>
trVars == <<trReq, trResp, trCalls>>
clientVars == <<home, storage, calls, timers, builder, chat, chain>>
proxyVars == <<proxyReq, upstream, upstreamPosts, proxyResp>>
previewVars == <<preview>>

\* what the handlers of one layer leave alone
outsideStore ==
    <<genVars, chatVars, trVars, clientVars, proxyVars, previewVars>>
outsideGen ==
    <<storeVars, chatVars, trVars, clientVars, proxyVars, previewVars>>
outsideTranslate ==
    <<storeVars, genResp, genCalls, chatVars, clientVars, proxyVars, previewVars>>
outsideChat ==
    <<storeVars, genResp, genCalls, trVars, clientVars, proxyVars, previewVars>>
outsideClient ==
    <<storeVars, genVars, chatVars, trVars, proxyVars, previewVars>>
outsideProxy ==
    <<storeVars, genVars, chatVars, trVars, clientVars, previewVars>>
outsidePreview ==
    <<storeVars, genVars, chatVars, trVars, clientVars, proxyVars>>

(***************************************************************************)
(* Bounds of the model.                                                    *)
(***************************************************************************)
MaxIds == 3
MaxFrags == 3
MaxContent == 2
MaxProps == 2
MaxGenerates == 3
MaxTurns == 2
MaxCalls == 2

(***************************************************************************)
(* The persistence / share layer.                                          *)
(***************************************************************************)
\* the values uuidv4() can return
Ids == 1..MaxIds
\* a route parameter that is not a uuid
BadId == 0
\* artifact texts a client may send; <<>> is the empty string
Codes == {<<"a">>, <<"b">>}
\* the jsonSchema of a deploy body: "undefined" when the key is absent
Schemas == {"undefined", "S1"}
BaseUrls == {"", "https://toyboy.example"}
DefaultBaseUrl == "http://localhost:3000"

NoResp == [status |-> 0, id |-> BadId, url |-> <<>>, error |-> ""]
NoFetch == [id |-> BadId, kind |-> "none", code |-> <<>>]

\* process.env.NEXT_PUBLIC_BASE_URL || "http://localhost:3000"
BaseUrl == IF baseUrlEnv = "" THEN DefaultBaseUrl ELSE baseUrlEnv

\* `${base}/share/${shareId}`
ShareUrl(id) == <<BaseUrl, "/share/", id>>

\* json_schema: jsonSchema -- an undefined value is dropped from the row,
\* and the column (jsonb, nullable, no default) is then NULL
SchemaColumn(jsonSchema) == IF jsonSchema = "undefined" THEN "NULL" ELSE jsonSchema

\* the row the deploy endpoint inserts
NewRow(code, jsonSchema) == [code |-> code, json_schema |-> SchemaColumn(jsonSchema)]

\* a plausible slip: the rows are written with upsert, which replaces an
\* existing row instead of refusing
InsertRefusedUpsert(id, storeUp) == ~storeUp

\* supabase.from('experiences').insert([...]): id is the primary key, so an
\* insert under an existing id is refused; an insert may also fail outright
InsertRefused(id, storeUp) == ~storeUp \/ id \in DOMAIN experiences

InsertRow(id, row) == [i \in DOMAIN experiences \cup {id} |->
                          IF i = id THEN row ELSE experiences[i]]

\* a plausible slip: the row is inserted before the code is looked at, and
\* a row with an empty code is refused only by the answer
DeployPOSTInsertsFirst(bodyOk, code, jsonSchema, id, storeUp) ==
    /\ IF ~bodyOk
       THEN /\ deployResp' = [NoResp EXCEPT !.status = 500,
                                            !.error = "Internal server error"]
            /\ UNCHANGED <<experiences, shared>>
       ELSE IF InsertRefused(id, storeUp)
       THEN /\ deployResp' = [NoResp EXCEPT !.status = 500,
                                            !.error = "Internal server error"]
            /\ UNCHANGED <<experiences, shared>>
       ELSE IF code = <<>>
       THEN /\ experiences' = InsertRow(id, NewRow(code, jsonSchema))
            /\ deployResp' = [NoResp EXCEPT !.status = 400,
                                            !.error = "Code is required"]
            /\ UNCHANGED shared
       ELSE /\ experiences' = InsertRow(id, NewRow(code, jsonSchema))
            /\ deployResp' = [status |-> 200, id |-> id, url |-> ShareUrl(id),
                              error |-> ""]
            /\ shared' = shared \cup
                  {[id |-> id, url |-> ShareUrl(id), code |-> code,
                    jsonSchema |-> jsonSchema]}
    /\ UNCHANGED <<baseUrlEnv, fetchResp>>
    /\ UNCHANGED outsideStore

\* POST /api/deploy
\*   bodyOk:    request.json() parses
\*   code:      body.code (<<>> when missing or empty)
\*   id:        the value uuidv4() returns
\*   storeUp:   the datastore accepts the call
DeployPOST(bodyOk, code, jsonSchema, id, storeUp) ==
    /\ IF ~bodyOk
       THEN /\ deployResp' = [NoResp EXCEPT !.status = 500,
                                            !.error = "Internal server error"]
            /\ UNCHANGED <<experiences, shared>>
       ELSE IF code = <<>>
       THEN /\ deployResp' = [NoResp EXCEPT !.status = 400,
                                            !.error = "Code is required"]
            /\ UNCHANGED <<experiences, shared>>
       ELSE IF InsertRefused(id, storeUp)
       THEN /\ deployResp' = [NoResp EXCEPT !.status = 500,
                                            !.error = "Internal server error"]
            /\ UNCHANGED <<experiences, shared>>
       ELSE /\ experiences' = InsertRow(id, NewRow(code, jsonSchema))
            /\ deployResp' = [status |-> 200, id |-> id, url |-> ShareUrl(id),
                              error |-> ""]
            /\ shared' = shared \cup
                  {[id |-> id, url |-> ShareUrl(id), code |-> code,
                    jsonSchema |-> jsonSchema]}
    /\ UNCHANGED <<baseUrlEnv, fetchResp>>
    /\ UNCHANGED outsideStore

Deploy ==
    \E bodyOk \in BOOLEAN, code \in Codes \cup {<<>>}, jsonSchema \in Schemas,
       id \in Ids, storeUp \in BOOLEAN :
        DeployPOST(bodyOk, code, jsonSchema, id, storeUp)

\* a plausible slip: the .eq('id', id) filter is left out, so .single()
\* answers the only row of the table, whatever the id, or an error
SelectSingleNoFilter(id) ==
    IF Cardinality(DOMAIN experiences) = 1
    THEN [data |-> <<experiences[CHOOSE i \in DOMAIN experiences : TRUE]>>,
          error |-> FALSE]
    ELSE [data |-> <<>>, error |-> TRUE]

\* supabase.from('experiences').select('*').eq('id', id).single():
\* exactly one row, or an error and no data (no row has the id, or the id is
\* not a uuid).  data is <<>> for null and <<row>> for a row.
SelectSingle(id) ==
    IF id \in DOMAIN experiences
    THEN [data |-> <<experiences[id]>>, error |-> FALSE]
    ELSE [data |-> <<>>, error |-> TRUE]

\* a plausible slip: the page renders without the error || !experience
\* guard, and experience.code of null throws (a server error)
SharePageUnchecked(id) ==
    /\ LET r == SelectSingle(id) IN
         fetchResp' = IF r.data = <<>>
                      THEN [id |-> id, kind |-> "serverError", code |-> <<>>]
                      ELSE [id |-> id, kind |-> "page", code |-> r.data[1].code]
    /\ UNCHANGED <<baseUrlEnv, experiences, deployResp, shared>>
    /\ UNCHANGED outsideStore

\* the share page, /share/[id]
SharePage(id) ==
    /\ LET r == SelectSingle(id) IN
         fetchResp' = IF r.error \/ r.data = <<>>
                      THEN [id |-> id, kind |-> "notFound", code |-> <<>>]
                      ELSE [id |-> id, kind |-> "page", code |-> r.data[1].code]
    /\ UNCHANGED <<baseUrlEnv, experiences, deployResp, shared>>
    /\ UNCHANGED outsideStore

Fetch == \E id \in Ids \cup {BadId} : SharePage(id)

(***************************************************************************)
(* Texts as token sequences: the character classes of the source.          *)
(***************************************************************************)
WH == "https://connorjoejoseph.app.n8n.cloud/webhook-test"
HostOther == "https://connorjoejoseph.app.n8n.cloud/webhook"
OtherUrl == "https://example.com"
ProxyPath == <<"/", "api/webhook-proxy">>
SvgData == "data:image/svg+xml"
BgNone == <<"backgroundImage:", "SP", "'", "none", "'">>

\* \s
IsSpace(t) == t \in {"SP", "NL"}
\* ['"]
IsQuote(t) == t \in {"'", "DQ"}
\* [^\s"']
NotSpaceQuote(t) == ~IsSpace(t) /\ ~IsQuote(t)
\* [^'"]
NotQuote(t) == ~IsQuote(t)
\* [^`]
NotBacktick(t) == t \notin {"BT", "FENCE"}
\* [^}]
NotBrace(t) == t # "}"
\* [^,}]
NotCommaBrace(t) == t \notin {",", "}"}
\* tsx|ts|typescript|javascript|js under the i flag
IsLabel(t) == t \in {"tsx", "ts", "typescript", "javascript", "js", "TSX"}
\* the tokens that begin https?:\/\/ and go on
IsUrlHead(t) == t \in {WH, HostOther, OtherUrl}
\* url.includes("connorjoejoseph.app.n8n.cloud"), token by token
HasHost(t) == t \in {WH, HostOther}

At(s, i) == IF i >= 1 /\ i <= Len(s) THEN s[i] ELSE "EOF"

\* the character classes, by name
InClass(c, t) ==
    CASE c = "space" -> IsSpace(t)
      [] c = "notSpaceQuote" -> NotSpaceQuote(t)
      [] c = "notQuote" -> NotQuote(t)
      [] c = "notBacktick" -> NotBacktick(t)
      [] c = "notBrace" -> NotBrace(t)
      [] c = "notCommaBrace" -> NotCommaBrace(t)

\* the length of the longest run of tokens of class c that starts at i
RunLen(s, i, c) ==
    LET stops == {j \in i..Len(s) : ~InClass(c, s[j])}
    IN  IF i > Len(s) THEN 0
        ELSE IF stops = {} THEN Len(s) - i + 1
        ELSE (CHOOSE j \in stops : \A k \in stops : j <= k) - i

\* String.prototype.replace with the g-flagged pattern of a rule, defined
\* below with the rules
RECURSIVE ReplaceFrom(_, _, _)
ReplaceAll(rule, s) == ReplaceFrom(rule, s, 1)

\* String.prototype.includes, for a needle of whole tokens
Includes(s, needle) ==
    \E i \in 1..(Len(s) - Len(needle) + 1) :
        SubSeq(s, i, i + Len(needle) - 1) = needle

\* the number of places where needle occurs
Count(s, needle) ==
    Cardinality({i \in 1..(Len(s) - Len(needle) + 1) :
                    SubSeq(s, i, i + Len(needle) - 1) = needle})

\* String.prototype.trim
Trim(s) ==
    LET keep == {i \in 1..Len(s) : ~IsSpace(s[i])}
    IN  IF keep = {} THEN <<>>
        ELSE SubSeq(s, CHOOSE i \in keep : \A k \in keep : i <= k,
                       CHOOSE i \in keep : \A k \in keep : i >= k)

(***************************************************************************)
(* The output sanitizer, rule by rule (generate-code/route.ts 120-184).    *)
(***************************************************************************)
\* after the opening fence: the place where (?:label)?\n? stops
AfterOpen(s) ==
    LET l == IF IsLabel(At(s, 2)) THEN 3 ELSE 2
    IN  IF At(s, l) = "NL" THEN l + 1 ELSE l

\* a plausible slip: the closing fence is taken off, the opening one stays
StripFenceKeepOpen(s) ==
    IF At(s, Len(s)) = "FENCE" /\ Len(s) >= 2
    THEN SubSeq(s, 1, Len(s) - 1)
    ELSE s

\* /^```(?:tsx|ts|typescript|javascript|js)?\n?([\s\S]*?)\n?```$/i and,
\* when it does not match, the two separate replaces of lines 129-130
StripFence(s) ==
    IF Len(s) >= 2 /\ s[1] = "FENCE" /\ s[Len(s)] = "FENCE"
    THEN \* the lazy group stops at the first place from which \n?```$ matches
         LET p == AfterOpen(s)
             q == IF Len(s) - 1 >= p /\ s[Len(s) - 1] = "NL"
                  THEN Len(s) - 1 ELSE Len(s)
         IN  SubSeq(s, p, q - 1)
    ELSE LET a == IF At(s, 1) = "FENCE"
                  THEN SubSeq(s, AfterOpen(s), Len(s)) ELSE s
             n == Len(a)
         IN  IF At(a, n) = "FENCE"
             THEN SubSeq(a, 1, IF At(a, n - 1) = "NL" THEN n - 2 ELSE n - 1)
             ELSE a

\* /^(?:typescript|tsx|javascript|js|ts)\s+/i
StripLeadingLabel(s) ==
    IF IsLabel(At(s, 1)) /\ IsSpace(At(s, 2))
    THEN SubSeq(s, 2 + RunLen(s, 2, "space"), Len(s))
    ELSE s

\* /https:\/\/connorjoejoseph\.app\.n8n\.cloud\/webhook-test\/[^\s"']+/g
WebhookMatch(s, i) ==
    IF s[i] = WH /\ At(s, i + 1) = "/" /\ RunLen(s, i + 2, "notSpaceQuote") >= 1
    THEN 2 + RunLen(s, i + 2, "notSpaceQuote")
    ELSE 0

RewriteWebhook(s) == ReplaceAll("webhook", s)

\* /fetch\(['"](https?:\/\/[^'"]+)['"]/g
FetchMatch(s, i) ==
    IF /\ s[i] = "fetch(" /\ IsQuote(At(s, i + 1)) /\ IsUrlHead(At(s, i + 2))
       /\ IsQuote(At(s, i + 2 + RunLen(s, i + 2, "notQuote")))
    THEN 3 + RunLen(s, i + 2, "notQuote")
    ELSE 0

\* the replacer of lines 148-153; the url is the tokens between the quotes
FetchReplacer(s, i, n) ==
    IF \E j \in (i + 2)..(i + n - 2) : HasHost(s[j])
    THEN <<"fetch(", "'">> \o ProxyPath \o <<"'">>
    ELSE SubSeq(s, i, i + n - 1)

\* lines 145-155
RewriteFetchFallback(s) ==
    IF ~Includes(s, ProxyPath)
    THEN ReplaceAll("fetch", s)
    ELSE s

\* /backgroundImage:\s*`url\(["']data:image\/svg\+xml[^`]+["']\)`/g
\* [^`]+ runs up to the next backtick, and the two tokens before that
\* backtick have to be the quote and the parenthesis
SvgTemplateMatch(s, i) ==
    LET u == i + 1 + RunLen(s, i + 1, "space")
        r == RunLen(s, u + 4, "notBacktick")
        e == u + 4 + r
    IN  IF /\ s[i] = "backgroundImage:"
           /\ At(s, u) = "BT" /\ At(s, u + 1) = "url(" /\ IsQuote(At(s, u + 2))
           /\ At(s, u + 3) = SvgData
           /\ r >= 3 /\ At(s, e) = "BT"
           /\ At(s, e - 1) = ")" /\ IsQuote(At(s, e - 2))
        THEN e - i + 1
        ELSE 0

\* /backgroundImage:\s*["']url\(["']data:image\/svg\+xml[^"']+["']\)["']/g
\* [^"']+ runs up to the next quote
SvgStringMatch(s, i) ==
    LET u == i + 1 + RunLen(s, i + 1, "space")
        r == RunLen(s, u + 4, "notQuote")
        e == u + 4 + r
    IN  IF /\ s[i] = "backgroundImage:"
           /\ IsQuote(At(s, u)) /\ At(s, u + 1) = "url(" /\ IsQuote(At(s, u + 2))
           /\ At(s, u + 3) = SvgData
           /\ r >= 1 /\ IsQuote(At(s, e))
           /\ At(s, e + 1) = ")" /\ IsQuote(At(s, e + 2))
        THEN e + 2 - i + 1
        ELSE 0

\* lines 157-165
RewriteSvgBackground(s) ==
    ReplaceAll("svgString", ReplaceAll("svgTemplate", s))

\* /,\s*['"]\s*$/gm: under the m flag $ holds at the end of the text and
\* before a newline, so the trailing \s* gives back up to its last newline
DanglingMatch(s, i) ==
    LET j == i + 1 + RunLen(s, i + 1, "space")
        w == RunLen(s, j + 1, "space")
        nls == {k \in (j + 1)..(j + w) : s[k] = "NL"}
    IN  IF s[i] = "," /\ IsQuote(At(s, j))
        THEN IF j + w = Len(s) THEN Len(s) - i + 1
             ELSE IF nls # {}
             THEN (CHOOSE k \in nls : \A m \in nls : k >= m) - i
             ELSE 0
        ELSE 0

\* line 167
DropDangling(s) == ReplaceAll("dangling", s)

\* /backgroundImage:\s*[^,}]+/g inside one style object: [^,}] takes white
\* space too, so the match is the property name and the run up to a comma
BgAnyMatch(s, i) ==
    IF s[i] = "backgroundImage:" /\ RunLen(s, i + 1, "notCommaBrace") >= 1
    THEN 1 + RunLen(s, i + 1, "notCommaBrace")
    ELSE 0

\* /style=\{\{([^}]+)\}\}/g
StyleMatch(s, i) ==
    LET r == RunLen(s, i + 1, "notBrace")
    IN  IF /\ s[i] = "style={{" /\ r >= 1
           /\ At(s, i + 1 + r) = "}" /\ At(s, i + 2 + r) = "}"
        THEN r + 3
        ELSE 0

\* the replacer of lines 169-179
StyleReplacer(s, i, n) ==
    LET content == SubSeq(s, i + 1, i + n - 3)
        singleQuotes == Count(content, <<"'">>)
        doubleQuotes == Count(content, <<"DQ">>)
    IN  IF singleQuotes % 2 # 0 \/ doubleQuotes % 2 # 0
        THEN <<"style={{">> \o ReplaceAll("bgAny", content)
                 \o <<"}", "}">>
        ELSE SubSeq(s, i, i + n - 1)

RepairUnbalancedStyle(s) == ReplaceAll("style", s)

\* /import\s+['"]<file>['"];?\n?/g for one file name
ImportMatch(s, i, file) ==
    LET j == i + 1 + RunLen(s, i + 1, "space")
        a == IF At(s, j + 3) = ";" THEN j + 4 ELSE j + 3
        b == IF At(s, a) = "NL" THEN a + 1 ELSE a
    IN  IF /\ s[i] = "import" /\ j > i + 1
           /\ IsQuote(At(s, j)) /\ At(s, j + 1) = file /\ IsQuote(At(s, j + 2))
        THEN b - i
        ELSE 0

\* the length of the match of a rule's pattern that starts at i, 0 for none
MatchLen(rule, s, i) ==
    CASE rule = "webhook" -> WebhookMatch(s, i)
      [] rule = "fetch" -> FetchMatch(s, i)
      [] rule = "svgTemplate" -> SvgTemplateMatch(s, i)
      [] rule = "svgString" -> SvgStringMatch(s, i)
      [] rule = "dangling" -> DanglingMatch(s, i)
      [] rule = "bgAny" -> BgAnyMatch(s, i)
      [] rule = "style" -> StyleMatch(s, i)
      [] rule = "appCss" -> ImportMatch(s, i, "./App.css")
      [] rule = "stylesCss" -> ImportMatch(s, i, "./styles.css")
      [] rule = "globalsCss" -> ImportMatch(s, i, "globals.css")

\* what a rule puts in the place of the n tokens matched at i
Replacement(rule, s, i, n) ==
    CASE rule = "webhook" -> ProxyPath
      [] rule = "fetch" -> FetchReplacer(s, i, n)
      [] rule \in {"svgTemplate", "svgString", "bgAny"} -> BgNone
      [] rule = "style" -> StyleReplacer(s, i, n)
      [] rule \in {"dangling", "appCss", "stylesCss", "globalsCss"} -> <<>>

\* the scan of replace under the g flag: left to right, each match
\* replaced, the scan going on after the match (no match is empty)
ReplaceFrom(rule, s, i) ==
    IF i > Len(s) THEN <<>>
    ELSE LET n == MatchLen(rule, s, i)
         IN  IF n > 0
             THEN Replacement(rule, s, i, n) \o ReplaceFrom(rule, s, i + n)
             ELSE <<s[i]>> \o ReplaceFrom(rule, s, i + 1)

\* lines 182-184
RemoveCssImports(s) ==
    ReplaceAll("globalsCss", ReplaceAll("stylesCss", ReplaceAll("appCss", s)))

\* lines 120-131: trim, then the fence
Unfence(raw) == StripFence(Trim(raw))

\* lines 133-184: the rules that follow the fence
SanitizeBody(s) ==
    RemoveCssImports(RepairUnbalancedStyle(DropDangling(RewriteSvgBackground(
        RewriteFetchFallback(RewriteWebhook(
            Trim(StripLeadingLabel(Trim(s)))))))))

\* lines 120-184, the whole chain
Sanitize(raw) == SanitizeBody(Unfence(raw))

(***************************************************************************)
(* POST /api/generate-code.                                                *)
(***************************************************************************)
NoGenResp == [status |-> 0, code |-> <<>>, error |-> ""]

GenError(status, error) == [status |-> status, code |-> <<>>, error |-> error]

\* process.env.MODEL_PROVIDER || "GOOGLE"
Provider == IF env.provider = "" THEN "GOOGLE" ELSE env.provider

\* lines 120-186: the model's text, cleaned, answered as { code }
GenSuccess(raw) == [status |-> 200, code |-> Sanitize(raw), error |-> ""]

\* POST /api/generate-code
\*   bodyOk:      request.json() parses
\*   jsonSchema:  body.jsonSchema: "undefined", "string" (not an object) or
\*                "object"
\* llmOut is the provider's answer: the call fails (ok = FALSE) or returns
\* the text (message.content || "" and response.text() alike)
GenerateCodePOST(bodyOk, jsonSchema) ==
    /\ genCalls' = IF /\ ~(Provider = "GOOGLE" /\ ~env.googleKey)
                      /\ ~(Provider = "OPEN_AI" /\ ~env.openaiKey)
                      /\ bodyOk /\ jsonSchema = "object"
                   THEN 1 ELSE 0
    /\ genResp' =
         IF Provider = "GOOGLE" /\ ~env.googleKey
         THEN GenError(500, "GOOGLE_GENAI_API_KEY is not configured")
         ELSE IF Provider = "OPEN_AI" /\ ~env.openaiKey
         THEN GenError(500, "OPENAI_GENAI_API_KEY is not configured")
         ELSE IF ~bodyOk
         THEN GenError(500, "Internal server error")
         ELSE IF jsonSchema # "object"
         THEN GenError(400, "JSON schema is required and must be an object")
         ELSE IF ~llmOut.ok
         THEN GenError(500, "Internal server error")
         ELSE GenSuccess(llmOut.text)
    /\ UNCHANGED <<env, llmOut>>
    /\ UNCHANGED outsideGen

GenerateCode ==
    \E bodyOk \in BOOLEAN, jsonSchema \in {"undefined", "string", "object"} :
        GenerateCodePOST(bodyOk, jsonSchema)

(***************************************************************************)
(* The texts the model may return.                                         *)
(***************************************************************************)
RECURSIVE Concats(_, _)
\* the concatenations of at most n members of F
Concats(F, n) ==
    IF n = 0 THEN {<<>>}
    ELSE LET P == Concats(F, n - 1)
         IN  P \cup {p \o f : p \in P, f \in F}

RECURSIVE Join(_)
\* the properties of a style object, separated by a comma and a space
Join(ps) ==
    IF Len(ps) = 0 THEN <<>>
    ELSE IF Len(ps) = 1 THEN ps[1]
    ELSE ps[1] \o <<",", "SP">> \o Join(Tail(ps))

\* texts around one fence
Tags == {<<>>, <<"tsx">>, <<"ts">>, <<"typescript">>, <<"javascript">>,
         <<"js">>, <<"TSX">>}
Opens == {<<>>} \cup {<<"FENCE">> \o t \o n : t \in Tags, n \in {<<>>, <<"NL">>}}
Closes == {<<>>, <<"FENCE">>, <<"NL", "FENCE">>}
Around == {<<>>, <<"a", "NL">>}
ContentFrags == {<<"a">>, <<"SP">>, <<"NL">>, <<"ts">>, <<"FENCE">>}
Contents == Concats(ContentFrags, MaxContent)
FenceTexts ==
    {pre \o open \o c \o close \o post :
        pre \in Around, open \in Opens, c \in Contents, close \in Closes,
        post \in Around}

\* texts with webhook URLs and fetch calls
FetchOf(q, url) == <<"fetch(", q>> \o url \o <<q, ")">>
WebhookFrags ==
    {<<WH>>, <<"/">>, <<"a">>, <<"SP">>, ProxyPath, <<WH, "/", "a">>,
     FetchOf("'", <<WH, "/", "a">>), FetchOf("DQ", <<HostOther, "/", "a">>),
     FetchOf("'", <<OtherUrl>>), <<"FENCE">>}
WebhookTexts == Concats(WebhookFrags, MaxFrags)

\* texts with import statements
ImportOf(q, file, end) == <<"import", "SP", q>> \o file \o <<q>> \o end
ImportFrags ==
    {ImportOf("'", <<"./App.css">>, <<";", "NL">>),
     ImportOf("DQ", <<"./styles.css">>, <<"NL">>),
     ImportOf("'", <<"globals.css">>, <<";">>),
     ImportOf("'", <<"./", "globals.css">>, <<";", "NL">>),
     <<"import", "SP", "styles", "SP", "from", "SP", "'", "./App.css", "'",
       ";", "NL">>,
     <<"import", "SP", "React", "SP", "from", "SP", "'", "react", "'", ";",
       "NL">>,
     <<"a", "NL">>}
ImportTexts == Concats(ImportFrags, MaxFrags)

\* the properties of an inline style object
BgTemplate ==
    <<"backgroundImage:", "SP", "BT", "url(", "DQ", SvgData, ",", "svg",
      "DQ", ")", "BT">>
BgTemplateQuoted ==
    <<"backgroundImage:", "BT", "url(", "'", SvgData, ",", "svg", "DQ", "x",
      "DQ", "'", ")", "BT">>
BgString ==
    <<"backgroundImage:", "SP", "DQ", "url(", "'", SvgData, ",", "svg", "'",
      ")", "DQ">>
BgStringQuoted ==
    <<"backgroundImage:", "SP", "DQ", "url(", "'", SvgData, ",", "svg",
      "BS", "'", "x", "BS", "'", "'", ")", "DQ">>
BgPlainUrl == <<"backgroundImage:", "SP", "'", "url(", "img.png", ")", "'">>
Color == <<"color:", "SP", "'", "red", "'">>
SvgProps == {BgTemplate, BgTemplateQuoted, BgString, BgStringQuoted}
Props == SvgProps \cup {BgPlainUrl, Color}
PropSeqs == UNION {[1..n -> Props] : n \in 1..MaxProps}
StyleObject(ps) == <<"style={{">> \o Join(ps) \o <<"}", "}">>
StyleTexts == {<<"<div", "SP">> \o StyleObject(ps) \o <<">">> : ps \in PropSeqs}

\* style objects whose quotes may be unbalanced: a value whose closing
\* quote is missing, and values with a comma inside, as a gradient has
BgOpen == <<"backgroundImage:", "SP", "'", "url(", "img.png", ")">>
BgGradient ==
    <<"backgroundImage:", "SP", "'", "linear-gradient(", "red", ",", "SP",
      "blue", ")", "'">>
BgGradientOpen ==
    <<"backgroundImage:", "SP", "'", "linear-gradient(", "red", ",", "SP",
      "blue", ")">>
RepairProps == {BgPlainUrl, Color, BgOpen, BgGradient, BgGradientOpen}
RepairSeqs == UNION {[1..n -> RepairProps] : n \in 1..MaxProps}
RepairTexts == {<<"<div", "SP">> \o StyleObject(ps) \o <<">">> : ps \in RepairSeqs}

Texts ==
    FenceTexts \cup WebhookTexts \cup ImportTexts \cup StyleTexts \cup RepairTexts

\* the settings of the environment, and a few texts to go with each
Envs == [provider : {"", "GOOGLE", "OPEN_AI", "OTHER"}, googleKey : BOOLEAN,
         openaiKey : BOOLEAN]
DefaultEnv == [provider |-> "", googleKey |-> TRUE, openaiKey |-> TRUE]
FewTexts == {<<>>, <<"a">>, <<"FENCE", "tsx", "NL", "a", "NL", "FENCE">>}

\* a provider without its credential refuses the call
KeyFor(e) == IF e.provider = "OPEN_AI" THEN e.openaiKey ELSE e.googleKey

(***************************************************************************)
(* POST /api/translate.  A JSON text is a token sequence over the brackets *)
(* { } [ ], the colon and the comma, null, 42 and the tokens that stand    *)
(* for a quoted string (a key name, "str"); "Here" is a word of prose.     *)
(* The model's JSON texts are objects whose member values are scalars, []  *)
(* or {}, and scalars, [] and {} on their own.                             *)
(***************************************************************************)
\* the keys of the object the translator prompt asks for
FixedKeys ==
    <<"APP_TITLE", "THEME_NAME", "PRIMARY_BG_HEX", "SECONDARY_BG_HEX",
      "TEXT_COLOR_HEX", "VISUAL_MOTIF", "CENTRAL_COMPONENT_ARCHITECTURE",
      "RECIPIENT_NAME", "CREATOR_NAME", "VIBE", "INSIDE_JOKES", "PREFERENCES",
      "STATUS_TEXT", "ACTION_BUTTONS">>
FixedKeySet == {FixedKeys[i] : i \in 1..Len(FixedKeys)}

\* a token that is a quoted string
IsJsonString(t) ==
    t \in FixedKeySet \cup {"str", "EXTRA_KEY", "hasEnoughInfo", "missingPoints"}

\* a JSON value: its type and, for an object, its members as pairs of a key
\* and the type of the member's value
JsonValue(type, members) == [type |-> type, members |-> members]

\* the type of the scalar, [] or {} that starts at i ("none" when there is
\* none) and the number of tokens it takes
SimpleType(t, i) ==
    CASE At(t, i) = "null" -> "null"
      [] At(t, i) \in {"true", "false"} -> At(t, i)
      [] At(t, i) = "42" -> "number"
      [] IsJsonString(At(t, i)) -> "string"
      [] At(t, i) = "[" /\ At(t, i + 1) = "]" -> "array"
      [] At(t, i) = "{" /\ At(t, i + 1) = "}" -> "object"
      [] OTHER -> "none"
SimpleLen(t, i) == IF SimpleType(t, i) \in {"array", "object"} THEN 2 ELSE 1

\* a member with the key of an earlier one replaces it
PutMember(members, key, type) ==
    {m \in members : m[1] # key} \cup {<<key, type>>}

RECURSIVE ParseMembers(_, _, _)
\* the members of an object from i on, up to the closing brace that ends
\* the text: key : value, separated by commas
ParseMembers(t, i, members) ==
    IF IsJsonString(At(t, i)) /\ At(t, i + 1) = ":"
          /\ SimpleType(t, i + 2) # "none"
    THEN LET j == i + 2 + SimpleLen(t, i + 2)
             ms == PutMember(members, t[i], SimpleType(t, i + 2))
         IN  IF At(t, j) = "}" /\ j = Len(t)
             THEN [ok |-> TRUE, value |-> JsonValue("object", ms)]
             ELSE IF At(t, j) = ","
             THEN ParseMembers(t, j + 1, ms)
             ELSE [ok |-> FALSE, value |-> JsonValue("none", {})]
    ELSE [ok |-> FALSE, value |-> JsonValue("none", {})]

NotSpace(t) == ~IsSpace(t)

\* JSON.parse: white space between the tokens does not count; ok is FALSE
\* where JSON.parse throws a SyntaxError
JsonParse(s) ==
    LET t == SelectSeq(s, NotSpace)
    IN  IF SimpleType(t, 1) # "none" /\ SimpleLen(t, 1) = Len(t)
        THEN [ok |-> TRUE, value |-> JsonValue(SimpleType(t, 1), {})]
        ELSE IF At(t, 1) = "{"
        THEN ParseMembers(t, 2, {})
        ELSE [ok |-> FALSE, value |-> JsonValue("none", {})]

\* json under the i flag
IsJsonLabel(t) == t \in {"json", "JSON"}

\* after the opening fence: the place where (?:json)?\n? stops
AfterOpenJson(s) ==
    LET l == IF IsJsonLabel(At(s, 2)) THEN 3 ELSE 2
    IN  IF At(s, l) = "NL" THEN l + 1 ELSE l

\* /^```(?:json)?\n?([\s\S]*?)\n?```$/i and, when it does not match, the two
\* separate replaces of lines 112-113
StripJsonFence(s) ==
    IF Len(s) >= 2 /\ s[1] = "FENCE" /\ s[Len(s)] = "FENCE"
    THEN LET p == AfterOpenJson(s)
             q == IF Len(s) - 1 >= p /\ s[Len(s) - 1] = "NL"
                  THEN Len(s) - 1 ELSE Len(s)
         IN  SubSeq(s, p, q - 1)
    ELSE LET a == IF At(s, 1) = "FENCE"
                  THEN SubSeq(s, AfterOpenJson(s), Len(s)) ELSE s
             n == Len(a)
         IN  IF At(a, n) = "FENCE"
             THEN SubSeq(a, 1, IF At(a, n - 1) = "NL" THEN n - 2 ELSE n - 1)
             ELSE a

\* lines 103-116: trim, the fence, trim
CleanJsonText(raw) == Trim(StripJsonFence(Trim(raw)))

NoTrResp == [status |-> 0, error |-> "", schema |-> JsonValue("none", {})]
NoTrReq == [body |-> "none", transcript |-> "undefined"]

TrError(status, error) ==
    [status |-> status, error |-> error, schema |-> JsonValue("none", {})]

\* lines 118-119: JSON.parse and the answer; a SyntaxError goes to the catch
\* block, which answers it at lines 122-129
TrAnswer(raw) ==
    LET r == JsonParse(CleanJsonText(raw))
    IN  IF r.ok
        THEN [status |-> 200, error |-> "", schema |-> r.value]
        ELSE TrError(500, "Failed to parse JSON response from AI model")

\* POST /api/translate
\*   body:        what request.json() gives: "unparseable" (it throws a
\*                SyntaxError), "null" (destructuring it throws a
\*                TypeError), "number" or "object"
\*   transcript:  body.transcript: "undefined", "empty" (the empty string),
\*                "number" (not a string) or "text"
\* llmOut is the provider's answer: the call fails (ok = FALSE) or returns
\* the text (message.content || "" and response.text() alike)
TranslatePOST(body, transcript) ==
    LET configured == /\ ~(Provider = "GOOGLE" /\ ~env.googleKey)
                      /\ ~(Provider = "OPEN_AI" /\ ~env.openaiKey)
        called == configured /\ body = "object" /\ transcript = "text"
    IN  /\ trReq' = [body |-> body, transcript |-> transcript]
        /\ trCalls' = IF called THEN 1 ELSE 0
        /\ trResp' =
             IF Provider = "GOOGLE" /\ ~env.googleKey
             THEN TrError(500, "GOOGLE_GENAI_API_KEY is not configured")
             ELSE IF Provider = "OPEN_AI" /\ ~env.openaiKey
             THEN TrError(500, "OPENAI_GENAI_API_KEY is not configured")
             ELSE IF body = "unparseable"
             THEN TrError(500, "Failed to parse JSON response from AI model")
             ELSE IF body = "null"
             THEN TrError(500, "Internal server error")
             ELSE IF transcript # "text"
             THEN TrError(400, "Transcript is required and must be a string")
             ELSE IF ~llmOut.ok
             THEN TrError(500, "Internal server error")
             ELSE TrAnswer(llmOut.text)
        /\ UNCHANGED <<env, llmOut>>
        /\ UNCHANGED outsideTranslate

Translate ==
    \E body \in {"unparseable", "null", "number", "object"},
       transcript \in {"undefined", "empty", "number", "text"} :
        /\ body # "object" => transcript = "undefined"
        /\ TranslatePOST(body, transcript)

\* the texts the model may return to the translator
JsonMember(key, value) == <<key, ":">> \o value
RECURSIVE JsonMembers(_, _)
\* the members for the keys ks[i..], each with the value the key has in vs
JsonMembers(ks, vs) ==
    IF Len(ks) = 0 THEN <<>>
    ELSE JsonMember(ks[1], vs[1]) \o
         (IF Len(ks) = 1 THEN <<>> ELSE <<",", "SP">>) \o
         JsonMembers(Tail(ks), Tail(vs))
JsonObject(ks, vs) == <<"{">> \o JsonMembers(ks, vs) \o <<"}">>

\* a value for each fixed key, as the prompt describes it
FullValues ==
    [i \in 1..Len(FixedKeys) |->
        IF FixedKeys[i] \in {"INSIDE_JOKES", "ACTION_BUTTONS"} THEN <<"[", "]">>
        ELSE IF FixedKeys[i] = "PREFERENCES" THEN <<"{", "}">>
        ELSE <<"str">>]
FullSchema == JsonObject(FixedKeys, FullValues)
\* the same without its last key, and with null for its first
ShortSchema ==
    JsonObject(SubSeq(FixedKeys, 1, Len(FixedKeys) - 1),
               SubSeq(FullValues, 1, Len(FixedKeys) - 1))
NullSchema == JsonObject(FixedKeys, [FullValues EXCEPT ![1] = <<"null">>])

JsonBodies ==
    {FullSchema, ShortSchema, NullSchema, <<"{", "}">>, <<"[", "]">>,
     <<"42">>, <<"null">>, <<"str">>,
     <<"{", "EXTRA_KEY", ":", "42", ",", "EXTRA_KEY", ":", "null", "}">>}
NotJsonBodies ==
    {<<>>, <<"Here">>, <<"{">>, <<"{", "APP_TITLE", "}">>,
     <<"{", "APP_TITLE", ":", "str", ",", "}">>, <<"42", "SP", "42">>,
     FullSchema \o <<"NL", "Here">>}
JsonOpens ==
    {<<>>, <<"SP">>, <<"Here", "NL">>} \cup
    {<<"FENCE">> \o t \o n : t \in {<<>>, <<"json">>, <<"JSON">>},
                             n \in {<<>>, <<"NL">>}}
JsonCloses == {<<>>, <<"NL">>, <<"FENCE">>, <<"NL", "FENCE">>,
               <<"NL", "FENCE", "NL">>}
TrTexts ==
    {open \o body \o close :
        open \in JsonOpens, body \in JsonBodies \cup NotJsonBodies,
        close \in JsonCloses}

(***************************************************************************)
(* The previewer (PreviewWrapper, part_000): processCode puts the origin   *)
(* of the page into the code before the code is handed to the sandbox.     *)
(***************************************************************************)
\* window.location.origin in the browser, and "" where there is no window
Origin == "http://localhost:3000"
Origins == {"", Origin}

NoPreview == [apiBaseUrl |-> "", code |-> <<>>, appCode |-> <<"none">>]

\* the declaration that the pattern of line 34 spells out
OriginDecl ==
    <<"const", "SP", "apiUrl", "SP", "=", "SP", "typeof", "SP", "window", "SP",
      "!==", "SP", "'", "undefined", "'", "SP", "?", "SP", "BT",
      "${window.location.origin}">> \o ProxyPath \o
    <<"BT", "SP", ":", "SP", "'">> \o ProxyPath \o <<"'", ";">>

\* `${apiBaseUrl}/api/webhook-proxy`
ProxyUrl(base) == <<base>> \o ProxyPath

\* the patterns of lines 27-30, 33-36 and 43-46: the number of tokens
\* matched at i, 0 for no match
PreviewMatch(rule, s, i) ==
    CASE rule = "webhook" -> WebhookMatch(s, i)
      [] rule = "originDecl" ->
            IF /\ i + Len(OriginDecl) - 1 <= Len(s)
               /\ SubSeq(s, i, i + Len(OriginDecl) - 1) = OriginDecl
            THEN Len(OriginDecl) ELSE 0
      [] rule = "quotedPath" ->
            IF /\ IsQuote(s[i]) /\ <<At(s, i + 1), At(s, i + 2)>> = ProxyPath
               /\ IsQuote(At(s, i + 3))
            THEN 4 ELSE 0

\* what each pattern puts in the place of its match
PreviewReplacement(rule, base, s, i) ==
    CASE rule = "webhook" -> ProxyUrl(base)
      [] rule = "originDecl" ->
            <<"const", "SP", "apiUrl", "SP", "=", "SP", "'">> \o ProxyUrl(base)
            \o <<"'", ";">>
      [] rule = "quotedPath" -> <<s[i]>> \o ProxyUrl(base) \o <<s[i + 3]>>

RECURSIVE PreviewReplaceFrom(_, _, _, _)
\* String.prototype.replace with a g-flagged pattern, from i on: the text
\* up to the leftmost match is kept, the match is replaced, and the search
\* goes on behind it
PreviewReplaceFrom(rule, base, s, i) ==
    LET hits == {k \in i..Len(s) : PreviewMatch(rule, s, k) > 0}
    IN  IF hits = {} THEN SubSeq(s, i, Len(s))
        ELSE LET j == CHOOSE k \in hits : \A m \in hits : k <= m
             IN  SubSeq(s, i, j - 1)
                 \o PreviewReplacement(rule, base, s, j)
                 \o PreviewReplaceFrom(rule, base, s,
                                       j + PreviewMatch(rule, s, j))

\* processCode (lines 20-50)
ProcessCode(apiBaseUrl, rawCode) ==
    IF apiBaseUrl = "" \/ rawCode = <<>> THEN rawCode
    ELSE LET c1 == PreviewReplaceFrom("webhook", apiBaseUrl, rawCode, 1)
             c2 == PreviewReplaceFrom("originDecl", apiBaseUrl, c1, 1)
         IN  IF Includes(c2, ProxyPath) /\ ~Includes(c2, <<apiBaseUrl>>)
             THEN PreviewReplaceFrom("quotedPath", apiBaseUrl, c2, 1)
             ELSE c2

\* the component is rendered with the code of the session: the code handed
\* to the sandbox is processCode(code || "") (lines 53-54; the placeholder
\* app of lines 55-61 stands for an empty result)
PreviewRender ==
    /\ preview.appCode = <<"none">>
    /\ preview' = [preview EXCEPT
                      !.appCode = ProcessCode(preview.apiBaseUrl, preview.code)]
    /\ UNCHANGED outsidePreview

\* the codes the previewer may be given: references to the webhook of the
\* three forms, alone and together
PreviewFrags ==
    {<<WH, "/", "a">>, <<"'">> \o ProxyPath \o <<"'">>,
     <<"DQ">> \o ProxyPath \o <<"DQ">>, <<"BT">> \o ProxyPath \o <<"BT">>,
     OriginDecl, <<"SP">>, <<"a">>, <<"'", Origin, "'">>}
PreviewCodes == Concats(PreviewFrags, MaxFrags)

(***************************************************************************)
(* POST /api/cupid-chat: the reply of the model to the turns, and the      *)
(* completion check, a second call whose answer is read as JSON.           *)
(***************************************************************************)
NoChatResp ==
    [status |-> 0, keys |-> {}, response |-> <<>>, isComplete |-> "none"]

\* lines 371-379: the answer of the catch block, and the 400 of line 254
ChatError(status) ==
    [status |-> status,
     keys |-> IF status = 400 THEN {"error"} ELSE {"error", "details"},
     response |-> <<>>, isComplete |-> "none"]

\* lines 236-248: the answers when the credential of the provider is missing
ChatConfigError == [ChatError(500) EXCEPT !.keys = {"error"}]

\* lines 345-365: the check text cleaned as the translator's is, and
\* JSON.parse; a text that does not parse counts as { hasEnoughInfo: false,
\* missingPoints: [] }
CompletionCheck(raw) ==
    LET r == JsonParse(CleanJsonText(raw))
    IN  IF r.ok THEN r.value
        ELSE JsonValue("object", {<<"hasEnoughInfo", "false">>,
                                  <<"missingPoints", "array">>})

\* completionCheck.hasEnoughInfo || false, as the type of the value: the
\* property of a number, a string or an array is undefined; null, false
\* and undefined give false, any other value gives itself (42 and "str"
\* are truthy, and so are [] and {})
IsCompleteOf(check) ==
    IF \E m \in check.members : m[1] = "hasEnoughInfo" /\ m[2] \notin {"false", "null"}
    THEN (CHOOSE m \in check.members : m[1] = "hasEnoughInfo")[2]
    ELSE "false"

\* lines 360-370: reading hasEnoughInfo of null throws a TypeError, which
\* the catch block answers; otherwise { response, isComplete }
ChatSuccess(reply, raw) ==
    LET check == CompletionCheck(raw)
    IN  IF check.type = "null" THEN ChatError(500)
        ELSE [status |-> 200, keys |-> {"response", "isComplete"},
              response |-> reply, isComplete |-> IsCompleteOf(check)]

\* POST /api/cupid-chat
\*   body:      what request.json() gives: "unparseable" (it throws), "null"
\*              (destructuring it throws) or "object"
\*   messages:  body.messages: "undefined", "string" (not an array),
\*              "empty" (an array without turns) or "turns"
\* llmOut is the provider's answer to the turns and checkOut its answer to
\* the completion check: the call fails (ok = FALSE) or returns the text.
\* With no turns the Google branch reads parts of undefined (line 314) and
\* throws before any call; the OpenAI branch calls with the system prompt.
CupidChatPOST(body, messages) ==
    LET configured == /\ ~(Provider = "GOOGLE" /\ ~env.googleKey)
                      /\ ~(Provider = "OPEN_AI" /\ ~env.openaiKey)
        replyCalled == /\ configured /\ body = "object"
                       /\ \/ messages = "turns"
                          \/ messages = "empty" /\ Provider = "OPEN_AI"
    IN  /\ chatCalls' = IF ~replyCalled THEN 0 ELSE IF llmOut.ok THEN 2 ELSE 1
        /\ chatResp' =
             IF ~configured THEN ChatConfigError
             ELSE IF body # "object" THEN ChatError(500)
             ELSE IF messages \in {"undefined", "string"} THEN ChatError(400)
             ELSE IF ~replyCalled \/ ~llmOut.ok \/ ~checkOut.ok THEN ChatError(500)
             ELSE ChatSuccess(llmOut.text, checkOut.text)
        /\ UNCHANGED <<env, llmOut, checkOut>>
        /\ UNCHANGED outsideChat

CupidChat ==
    \E body \in {"unparseable", "null", "object"},
       messages \in {"undefined", "string", "empty", "turns"} :
        /\ body # "object" => messages = "undefined"
        /\ CupidChatPOST(body, messages)

\* the answers of the model to the completion check: the object the prompt
\* asks for, with and without missing points, objects whose hasEnoughInfo
\* is not a boolean or is absent, other JSON values, and prose
CheckMembers ==
    {<<>>, <<",", "SP", "missingPoints", ":", "[", "]">>}
CheckFlags == {<<"true">>, <<"false">>, <<"str">>, <<"42">>, <<"null">>, <<"[", "]">>}
CheckBodies ==
    {<<"{", "hasEnoughInfo", ":">> \o f \o m \o <<"}">> :
        f \in CheckFlags, m \in CheckMembers}
    \cup {<<"{", "missingPoints", ":", "[", "]", "}">>, <<"{", "}">>, <<"null">>,
          <<"true">>, <<"42">>, <<"[", "]">>,
          <<>>, <<"Here">>, <<"{", "hasEnoughInfo", ":", "true">>}
CheckTexts ==
    {open \o body \o close :
        open \in {<<>>, <<"FENCE", "json", "NL">>},
        body \in CheckBodies,
        close \in {<<>>, <<"NL", "FENCE">>}}
\* the replies of the model; <<>> is the empty text
ReplyTexts == {<<>>, <<"r1">>}

(***************************************************************************)
(* The client: the Home page (page.tsx) with its two effects and the local *)
(* storage, the chat (CupidChat.tsx) and the builder                       *)
(* (BuilderEnvironment.tsx), and the network calls they have in flight.    *)
(* A handler runs up to its next await in one step: React batches the      *)
(* state updates of the step, renders once, runs the effects of the        *)
(* render in the order of their declaration, and renders again for the     *)
(* updates the effects made, until nothing changes.                        *)
(***************************************************************************)
\* the JSON values a state or a response may hold
JsonNull == JsonValue("null", {})
JsonNone == JsonValue("none", {})

\* the truthiness of a JSON value: 42, "x", [] and {} are truthy
Truthy(v) == v.type \notin {"null", "none"}

\* the text JSON.stringify writes for a value of a type
TypeText(type) ==
    CASE type = "null" -> <<"null">>
      [] type = "number" -> <<"42">>
      [] type = "string" -> <<"str">>
      [] type = "array" -> <<"[", "]">>
      [] type = "object" -> <<"{", "}">>

AllKeys == FixedKeys \o <<"EXTRA_KEY">>
HasMember(v, k) == \E m \in v.members : m[1] = k
MemberType(v, k) == (CHOOSE m \in v.members : m[1] = k)[2]

RECURSIVE StringifyFrom(_, _)
\* the members of v for the keys AllKeys[i..], a comma before each
StringifyFrom(v, i) ==
    IF i > Len(AllKeys) THEN <<>>
    ELSE (IF HasMember(v, AllKeys[i])
          THEN <<",", AllKeys[i], ":">> \o TypeText(MemberType(v, AllKeys[i]))
          ELSE <<>>) \o StringifyFrom(v, i + 1)

\* JSON.stringify
JsonStringify(v) ==
    IF v.type = "object" /\ v.members # {}
    THEN <<"{">> \o Tail(StringifyFrom(v, 1)) \o <<"}">>
    ELSE TypeText(v.type)

\* the keys of the local storage
KState == "toy-boy-state"
KSchema == "toy-boy-json-schema"
KCode == "toy-boy-generated-code"
KTranscript == "toy-boy-transcript"

\* localStorage.getItem: null for a key that is not there; null and the
\* empty string are both falsy, and the page reads an item where it is truthy
GetItem(st, k) == IF k \in DOMAIN st THEN st[k] ELSE <<>>
SetItem(st, k, v) == [x \in DOMAIN st \cup {k} |-> IF x = k THEN v ELSE st[x]]
RemoveItem(st, k) == [x \in DOMAIN st \ {k} |-> st[x]]
NoStorage == [x \in {} |-> <<>>]

\* page.tsx 11-17
HomeInit ==
    [state |-> "chatting", transcript |-> <<>>, jsonSchema |-> JsonNull,
     generatedCode |-> <<>>, isGenerating |-> FALSE]

\* the part of generateCodeFromSchema that runs before its await (76-77)
GenStart(h) == [h EXCEPT !.state = "generating", !.isGenerating = TRUE]

\* the condition of line 28
LoadRestores(st) ==
    /\ GetItem(st, KState) # <<>>
    /\ GetItem(st, KCode) # <<>> \/ GetItem(st, KSchema) # <<>>

\* line 46: a schema and no code, so the load effect starts a generation
LoadRegenerates(st) ==
    /\ LoadRestores(st)
    /\ GetItem(st, KCode) = <<>>
    /\ GetItem(st, KSchema) # <<>>

\* the schema the load effect parses from the storage (a text that does not
\* parse leaves the schema as it is, line 33)
SavedSchema(h, st) ==
    LET r == JsonParse(GetItem(st, KSchema))
    IN  IF r.ok THEN r.value ELSE h.jsonSchema

\* the load effect (20-58): the state after the updates it makes
LoadEffect(h, st) ==
    IF ~LoadRestores(st) THEN h
    ELSE [state |-> IF GetItem(st, KCode) # <<>> THEN "editing"
                    ELSE "generating",
          transcript |-> IF GetItem(st, KTranscript) # <<>>
                         THEN GetItem(st, KTranscript) ELSE h.transcript,
          jsonSchema |-> IF GetItem(st, KSchema) # <<>>
                         THEN SavedSchema(h, st) ELSE h.jsonSchema,
          generatedCode |-> IF GetItem(st, KCode) # <<>>
                            THEN GetItem(st, KCode) ELSE h.generatedCode,
          isGenerating |-> IF LoadRegenerates(st) THEN TRUE
                           ELSE h.isGenerating]

\* the persist effect (61-73)
PersistEffect(h, st) ==
    LET s1 == SetItem(st, KState, <<h.state>>)
        s2 == SetItem(s1, KTranscript, h.transcript)
        s3 == SetItem(s2, KCode, h.generatedCode)
    IN  IF Truthy(h.jsonSchema)
        THEN SetItem(s3, KSchema, JsonStringify(h.jsonSchema))
        ELSE RemoveItem(s3, KSchema)

\* the dependencies of the persist effect
PersistDeps(h) == <<h.jsonSchema, h.generatedCode, h.transcript, h.state>>

RECURSIVE Settle(_, _, _, _, _, _)
\* the renders and effects that follow a step.  prev is the state of the
\* previous render, h the state being rendered, st the storage; force is
\* "mount" for the first render of the page, "schema" when an effect of the
\* previous render set the schema to a newly parsed object (a new identity,
\* so the persist effect runs again), and "none" otherwise; started and
\* modes are the schemas of the generations the load effect has started
\* and the modes that were rendered so far.  The result: the state and the
\* storage in the end, with all the generations started and all the modes
\* rendered.
Settle(prev, h, st, force, started, modes) ==
    LET loadRuns == force = "mount" \/ h.state # prev.state
        persistRuns == force # "none" \/ PersistDeps(h) # PersistDeps(prev)
        h2 == IF loadRuns THEN LoadEffect(h, st) ELSE h
        regen == IF loadRuns /\ LoadRegenerates(st)
                 THEN <<SavedSchema(h, st)>> ELSE <<>>
        touched == loadRuns /\ LoadRestores(st) /\ GetItem(st, KSchema) # <<>>
        st2 == IF persistRuns THEN PersistEffect(h, st) ELSE st
    IN  IF h2 = h /\ ~touched
        THEN [home |-> h, storage |-> st2, started |-> started \o regen,
              modes |-> modes \cup {h.state}]
        ELSE Settle(h, h2, st2, IF touched THEN "schema" ELSE "none",
                    started \o regen, modes \cup {h.state})

\* the renders and effects after the updates of a handler, and after the
\* page is loaded with the storage st
AfterUpdate(prev, h, st) == Settle(prev, h, st, "none", <<>>, {})
AfterMount(st) == Settle(HomeInit, HomeInit, st, "mount", <<>>, {})

\* CupidChat.tsx 36-57: the chat after its mount effect
Message(role, content, flag) == [role |-> role, content |-> content, flag |-> flag]
ChatInit ==
    [messages |-> <<Message("cupid", "Hey", FALSE)>>, isLoading |-> FALSE,
     isComplete |-> FALSE, handoffs |-> 0]

\* BuilderEnvironment.tsx 19-23 (the text of the input is an input of
\* handleIterate)
BuilderInit == [isIterating |-> FALSE, isDeploying |-> FALSE, shareUrl |-> <<>>]

\* what the user types, what the chat endpoint replies, what the code
\* generation and the deploy endpoint answer with
UserInputs == {"u1"}
Replies == {"r1"}
IterationRequests == {"m1"}
ClientCodes == {<<>>, <<"a">>}
ClientUrl == <<"shareUrl">>
\* what the translate endpoint answers with status 200: any JSON value;
\* two objects, so that a new schema can differ from the one before
ClientSchemas ==
    {JsonParse(<<"{", "APP_TITLE", ":", "str", "}">>).value,
     JsonParse(<<"{", "THEME_NAME", ":", "str", "}">>).value, JsonNull}

\* CupidChat.tsx 115-117: the transcript of a list of messages
RECURSIVE TranscriptOf(_)
TranscriptOf(ms) ==
    IF Len(ms) = 0 THEN <<>>
    ELSE <<IF ms[1].role = "cupid" THEN "Cupid:" ELSE "User:", ms[1].content>>
         \o (IF Len(ms) = 1 THEN <<>> ELSE <<"NLNL">>)
         \o TranscriptOf(Tail(ms))

\* page.tsx 143
UpdatedTranscript(t, message) == t \o <<"NLNL", "Iteration request:", message>>

\* a network call in flight: the endpoint, the chain that made it (chat,
\* iterate, effect, deploy, message), the user action it belongs to (the
\* latest one that started a chain, an earlier one, or none), the component
\* whose handler awaits it and whether that component is still mounted, and
\* what the request carries
Call(kind, chain_, action, owner, text, schema, messages) ==
    [kind |-> kind, chain |-> chain_, action |-> action, owner |-> owner,
     live |-> TRUE, text |-> text, schema |-> schema, messages |-> messages]

RemoveAt(s, i) == SubSeq(s, 1, i - 1) \o SubSeq(s, i + 1, Len(s))

\* a user action that starts a chain, and the calls made for it so far
Chain(kind, translate) == [kind |-> kind, translate |-> translate, generate |-> 0]
NoChain == Chain("none", 0)

\* a new user action starts a chain: the calls in flight belong to earlier ones
Earlier(cs) ==
    [i \in 1..Len(cs) |->
        IF cs[i].action = "latest" THEN [cs[i] EXCEPT !.action = "earlier"]
        ELSE cs[i]]

\* the end of a step: the renders and effects that follow the updates of
\* the step (h1, st1), the mounting and unmounting of the chat and the
\* builder that the rendered modes bring, and the generations the load
\* effect started, counted for the user action a the step belongs to
Commit(h1, st1, calls1, timers1, b1, c1, chain1, a) ==
    \E r \in {AfterUpdate(home, h1, st1)} :
    LET modes == r.modes \cup {home.state}
        builderStays == modes = {"editing"}
        chatStays == modes = {"chatting"}
        Orphan(c) ==
            IF \/ c.owner = "builder" /\ ~builderStays
               \/ c.owner = "chat" /\ ~chatStays
            THEN [c EXCEPT !.live = FALSE] ELSE c
        started ==
            [i \in 1..Len(r.started) |->
                Call("generate", "effect", a, "home", <<>>, r.started[i], <<>>)]
        calls2 == [i \in 1..Len(calls1) |-> Orphan(calls1[i])] \o started
    IN  /\ Len(calls2) + Len(timers1) <= MaxCalls
        /\ a = "latest" => chain1.generate + Len(started) <= MaxGenerates
        /\ home' = r.home
        /\ storage' = r.storage
        /\ calls' = calls2
        /\ timers' = timers1
        /\ builder' = IF builderStays THEN b1 ELSE BuilderInit
        /\ chat' = IF chatStays THEN c1 ELSE ChatInit
        /\ chain' = IF a = "latest"
                    THEN [chain1 EXCEPT !.generate = @ + Len(started)]
                    ELSE chain1
        /\ UNCHANGED outsideClient

\* the part of generateCodeFromSchema up to its await, for a chain
StartGenerate(ch, a) ==
    IF a = "latest" THEN [ch EXCEPT !.generate = @ + 1] ELSE ch

\* CupidChat.handleSend up to its await (69-96)
HandleSend(input) ==
    /\ home.state = "chatting"
    /\ ~chat.isLoading /\ ~chat.isComplete
    /\ Cardinality({i \in 1..Len(chat.messages) :
                       chat.messages[i].role = "user"}) < MaxTurns
    /\ LET ms == Append(chat.messages, Message("user", input, FALSE))
       IN  Commit(home, storage,
                  Append(calls, Call("chat", "message", "none", "chat", <<>>,
                                     JsonNone, ms)),
                  timers, builder,
                  [chat EXCEPT !.messages = ms, !.isLoading = TRUE],
                  chain, "none")

\* a plausible slip: the transcript is handed off after every reply,
\* whatever its completion flag
ChatReplyAlways(i, reply, flag) ==
    LET c == calls[i]
        all == Append(c.messages, Message("cupid", reply, flag))
    IN  /\ c.kind = "chat"
        /\ Commit(home, storage, RemoveAt(calls, i),
                  Append(timers, TranscriptOf(all)),
                  builder,
                  IF c.live
                  THEN [chat EXCEPT !.messages = Append(@, Message("cupid", reply, flag)),
                                    !.isComplete = flag,
                                    !.handoffs = @ + 1,
                                    !.isLoading = FALSE]
                  ELSE chat,
                  chain, "none")

\* CupidChat.handleSend after a response that is ok (98-119, 130-132)
ChatReply(i, reply, flag) ==
    LET c == calls[i]
        all == Append(c.messages, Message("cupid", reply, flag))
    IN  /\ c.kind = "chat"
        /\ Commit(home, storage, RemoveAt(calls, i),
                  IF flag THEN Append(timers, TranscriptOf(all)) ELSE timers,
                  builder,
                  IF c.live
                  THEN [chat EXCEPT !.messages = Append(@, Message("cupid", reply, flag)),
                                    !.isComplete = @ \/ flag,
                                    !.handoffs = IF flag THEN @ + 1 ELSE @,
                                    !.isLoading = FALSE]
                  ELSE chat,
                  chain, "none")

\* CupidChat.handleSend after a response that is not ok, or none (120-132)
ChatFailure(i) ==
    LET c == calls[i]
    IN  /\ c.kind = "chat"
        /\ Commit(home, storage, RemoveAt(calls, i), timers, builder,
                  IF c.live
                  THEN [chat EXCEPT !.messages = Append(@, Message("cupid", "Oops", FALSE)),
                                    !.isLoading = FALSE]
                  ELSE chat,
                  chain, "none")

\* the timer of CupidChat.tsx 118 fires: handleChatComplete up to its await
\* (page.tsx 102-113)
HandleChatComplete(i) ==
    Commit([home EXCEPT !.transcript = timers[i],
                        !.state = "generating",
                        !.isGenerating = TRUE],
           storage,
           Append(Earlier(calls),
                  Call("translate", "chat", "latest", "home", timers[i],
                       JsonNone, <<>>)),
           RemoveAt(timers, i), builder, chat, Chain("chat", 1), "latest")

\* the builder's handleIterate after onIterate has returned (31, 35)
IterateDone(b, c) ==
    IF c.owner = "builder" /\ c.live THEN [b EXCEPT !.isIterating = FALSE] ELSE b

\* handleChatComplete and handleIterate after a translate response that is
\* ok (page.tsx 119-123, 153-156, 76-84)
TranslateOk(i, schema) ==
    LET c == calls[i]
    IN  /\ c.kind = "translate"
        /\ Commit([GenStart(home) EXCEPT !.jsonSchema = schema],
                  storage,
                  Append(RemoveAt(calls, i),
                         [Call("generate", c.chain, c.action, c.owner, <<>>,
                               schema, <<>>) EXCEPT !.live = c.live]),
                  timers, builder, chat,
                  StartGenerate(chain, c.action), c.action)

\* handleChatComplete and handleIterate after a translate response that is
\* not ok, or none (page.tsx 124-131, 157-162)
TranslateFailure(i) ==
    LET c == calls[i]
    IN  /\ c.kind = "translate"
        /\ Commit(IF c.chain = "chat"
                  THEN [home EXCEPT !.state = "chatting", !.isGenerating = FALSE]
                  ELSE [home EXCEPT !.isGenerating = FALSE],
                  storage, RemoveAt(calls, i), timers,
                  IterateDone(builder, c), chat, chain, c.action)

\* a plausible slip: the failure of a generation also resets the session,
\* as clearSavedState does
GenerateFailureHomeResets(h) ==
    [h EXCEPT !.state = "chatting", !.isGenerating = FALSE,
              !.transcript = <<>>, !.jsonSchema = JsonNull,
              !.generatedCode = <<>>]

\* generateCodeFromSchema's catch and finally (page.tsx 93-99)
GenerateFailureHome(h) ==
    [h EXCEPT !.state = "chatting", !.isGenerating = FALSE]

\* generateCodeFromSchema after a response that is ok (page.tsx 90-92,
\* 97-99), and the handlers that awaited it
GenerateOk(i, code) ==
    LET c == calls[i]
    IN  /\ c.kind = "generate"
        /\ c.schema.type \in {"object", "array"}
        /\ Commit([home EXCEPT !.generatedCode = code, !.state = "editing",
                               !.isGenerating = FALSE],
                  storage, RemoveAt(calls, i), timers,
                  IterateDone(builder, c), chat, chain, c.action)

\* generateCodeFromSchema after a response that is not ok, or none, and the
\* handlers that awaited it
GenerateFailure(i) ==
    LET c == calls[i]
    IN  /\ c.kind = "generate"
        /\ Commit(GenerateFailureHome(home),
                  storage, RemoveAt(calls, i), timers,
                  IterateDone(builder, c), chat, chain, c.action)

\* BuilderEnvironment.handleIterate and page.tsx handleIterate up to the
\* await (25-30; page.tsx 134-149): the button and the input are enabled
\* (173, 180), and without a schema onIterate returns at once
BuilderHandleIterate(message) ==
    /\ home.state = "editing"
    /\ ~builder.isIterating /\ ~home.isGenerating
    /\ IF ~Truthy(home.jsonSchema)
       THEN Commit(home, storage, calls, timers, builder, chat, chain, "none")
       ELSE Commit([home EXCEPT !.isGenerating = TRUE], storage,
                   Append(Earlier(calls),
                          Call("translate", "iterate", "latest", "builder",
                               UpdatedTranscript(home.transcript, message),
                               JsonNone, <<>>)),
                   timers, [builder EXCEPT !.isIterating = TRUE], chat,
                   Chain("iterate", 1), "latest")

\* BuilderEnvironment.handleDeploy up to its await (39-48): the button is
\* shown and enabled (109, 114)
HandleDeploy ==
    /\ home.state = "editing"
    /\ builder.shareUrl = <<>>
    /\ ~builder.isDeploying /\ ~home.isGenerating
    /\ home.generatedCode # <<>>
    /\ Commit(home, storage,
              Append(calls, Call("deploy", "deploy", "none", "builder",
                                 home.generatedCode, JsonNone, <<>>)),
              timers, [builder EXCEPT !.isDeploying = TRUE], chat, chain, "none")

\* handleDeploy after its await (50-59); ok is response.ok
DeployDone(i, ok) ==
    LET c == calls[i]
    IN  /\ c.kind = "deploy"
        /\ Commit(home, storage, RemoveAt(calls, i), timers,
                  IF c.live
                  THEN [builder EXCEPT !.isDeploying = FALSE,
                                       !.shareUrl = IF ok THEN ClientUrl ELSE @]
                  ELSE builder,
                  chat, chain, "none")

\* the Continue editing button (154-159)
ContinueEditing ==
    /\ home.state = "editing"
    /\ builder.shareUrl # <<>>
    /\ Commit(home, storage, calls, timers,
              [builder EXCEPT !.shareUrl = <<>>], chat, chain, "none")

\* clearSavedState (page.tsx 165-174); the Start New button is shown (180)
ClearSavedState ==
    /\ home.state \in {"editing", "generating"} \/ home.generatedCode # <<>>
    /\ Commit([home EXCEPT !.state = "chatting", !.transcript = <<>>,
                           !.jsonSchema = JsonNull, !.generatedCode = <<>>],
              NoStorage, calls, timers, builder, chat, chain, "none")

\* the page is loaded again in the same tab: the calls and timers of the
\* old page are gone, the new page mounts with the storage as it is
Reload ==
    /\ \E r \in {AfterMount(storage)} :
           /\ home' = r.home
           /\ storage' = r.storage
           /\ calls' = [i \in 1..Len(r.started) |->
                           Call("generate", "effect", "none", "home", <<>>,
                                r.started[i], <<>>)]
           /\ timers' = <<>>
           /\ builder' = BuilderInit
           /\ chat' = ChatInit
           /\ chain' = NoChain
    /\ UNCHANGED outsideClient

Send == \E input \in UserInputs : HandleSend(input)
ChatAnswer ==
    \E i \in 1..Len(calls) :
        \/ \E reply \in Replies, flag \in BOOLEAN : ChatReply(i, reply, flag)
        \/ ChatFailure(i)
Complete == \E i \in 1..Len(timers) : HandleChatComplete(i)
TranslateAnswer ==
    \E i \in 1..Len(calls) :
        \/ \E schema \in ClientSchemas : TranslateOk(i, schema)
        \/ TranslateFailure(i)
GenerateAnswer ==
    \E i \in 1..Len(calls) :
        \/ \E code \in ClientCodes : GenerateOk(i, code)
        \/ GenerateFailure(i)
Iterate == \E message \in IterationRequests : BuilderHandleIterate(message)
DeployAnswer == \E i \in 1..Len(calls), ok \in BOOLEAN : DeployDone(i, ok)

(***************************************************************************)
(* The webhook proxy.  A request body is a text; the body the proxy sends  *)
(* on is JSON.stringify of what request.json() parsed.  The webhook either *)
(* answers with a status and a text or the call to it fails.               *)
(***************************************************************************)
WEBHOOK_URL == "https://connorjoejoseph.app.n8n.cloud/webhook-test/6c934abf-e08b-4ace-aa32-012b814e1d58"

\* the three headers both handlers put on every response they build
CorsHeaders ==
    [origin |-> "*", methods |-> "POST, OPTIONS", headers |-> "Content-Type"]

NoHeaders == [origin |-> "", methods |-> "", headers |-> ""]

\* the statuses a Response with a body cannot be built with
NullBodyStatuses == {204, 205, 304}

\* response.ok
StatusOk(status) == status >= 200 /\ status <= 299

\* the bodies of the requests to the proxy, and what the webhook may do
ProxyBodies ==
    {<<>>, <<"Here">>, <<"null">>, <<"42">>, <<"str">>, <<"[", "]">>,
     <<"{", "}">>, <<"{", "APP_TITLE", ":", "str", "}">>,
     <<"{", "SP", "APP_TITLE", ":", "SP", "42", "SP", "}">>}
UpstreamTexts == {<<>>, <<"ok">>, <<"{", "}">>}
UpstreamStatuses == {200, 201, 400, 404, 500}
UpstreamOutcomes ==
    [failed : {FALSE}, status : UpstreamStatuses, text : UpstreamTexts]
    \cup [failed : {FALSE}, status : NullBodyStatuses, text : {<<>>}]
    \cup {[failed |-> TRUE, status |-> 0, text |-> <<>>]}

NoProxyReq == <<"none">>
NoUpstream == [failed |-> FALSE, status |-> 0, text |-> <<>>]
NoProxyResp ==
    [status |-> 0, success |-> FALSE, data |-> <<>>, null |-> FALSE,
     error |-> "", headers |-> NoHeaders]

\* the response of lines 21-31: `data || null` is null for an empty text
ProxyAnswer(up) ==
    [status |-> up.status, success |-> StatusOk(up.status), data |-> up.text,
     null |-> up.text = <<>>, error |-> "", headers |-> CorsHeaders]

\* the response of the catch block (32-48)
ProxyError(message) ==
    [status |-> 500, success |-> FALSE, data |-> <<>>, null |-> FALSE,
     error |-> message, headers |-> CorsHeaders]

\* the response of OPTIONS (52-60)
PreflightAnswer ==
    [status |-> 200, success |-> FALSE, data |-> <<>>, null |-> FALSE,
     error |-> "", headers |-> CorsHeaders]

\* what the handler answers once the webhook has been called: a failed
\* call throws, and so does NextResponse.json when it is given a body and
\* a status that allows none
ProxyResult(up) ==
    IF up.failed THEN ProxyError("fetch failed")
    ELSE IF up.status \in NullBodyStatuses
         THEN ProxyError("Invalid response status code")
         ELSE ProxyAnswer(up)

\* POST of the webhook proxy (5-49)
WebhookPOST(body, up) ==
    LET parsed == JsonParse(body)
    IN  /\ proxyReq = NoProxyReq
        /\ proxyReq' = body
        /\ IF ~parsed.ok
           THEN /\ upstream' = NoUpstream
                /\ upstreamPosts' = upstreamPosts
                /\ proxyResp' = ProxyError("Unexpected token")
           ELSE /\ upstream' = up
                /\ upstreamPosts' =
                       Append(upstreamPosts,
                              [url |-> WEBHOOK_URL, method |-> "POST",
                               body |-> JsonStringify(parsed.value)])
                /\ proxyResp' = ProxyResult(up)
        /\ UNCHANGED outsideProxy

\* OPTIONS of the webhook proxy (52-60), the preflight of a request
WebhookOPTIONS ==
    /\ proxyReq = NoProxyReq
    /\ proxyResp = NoProxyResp
    /\ proxyResp' = PreflightAnswer
    /\ UNCHANGED <<proxyReq, upstream, upstreamPosts, outsideProxy>>

ProxyPost == \E body \in ProxyBodies, up \in UpstreamOutcomes : WebhookPOST(body, up)

InitPreviewIdle == preview = NoPreview

InitProxyIdle ==
    /\ proxyReq = NoProxyReq
    /\ upstream = NoUpstream
    /\ upstreamPosts = <<>>
    /\ proxyResp = NoProxyResp

InitStore ==
    /\ baseUrlEnv \in BaseUrls
    /\ experiences = <<>>
    /\ deployResp = NoResp
    /\ shared = {}
    /\ fetchResp = NoFetch

InitGenIdle ==
    /\ env = DefaultEnv
    /\ llmOut = [ok |-> TRUE, text |-> <<>>]
    /\ genResp = NoGenResp
    /\ genCalls = 0

InitChatIdle ==
    /\ checkOut = [ok |-> TRUE, text |-> <<>>]
    /\ chatResp = NoChatResp
    /\ chatCalls = 0

InitTrIdle ==
    /\ trReq = NoTrReq
    /\ trResp = NoTrResp
    /\ trCalls = 0

\* the page on a first visit: nothing in the storage, the page and the chat
\* mounted, the mount effects run
InitClient ==
    /\ home = HomeInit
    /\ storage = AfterMount(NoStorage).storage
    /\ calls = <<>>
    /\ timers = <<>>
    /\ builder = BuilderInit
    /\ chat = ChatInit
    /\ chain = NoChain

Init ==
    /\ InitStore /\ InitGenIdle /\ InitChatIdle /\ InitTrIdle /\ InitClient
    /\ InitProxyIdle
    /\ InitPreviewIdle

Next == Deploy \/ Fetch

Spec == Init /\ [][Next]_vars

(***************************************************************************)
(* The code-generation endpoint on its own: the store is empty and idle,   *)
(* the provider's answer is drawn at the start, the handler runs on it.    *)
(***************************************************************************)
InitStoreIdle ==
    /\ baseUrlEnv = ""
    /\ experiences = <<>>
    /\ deployResp = NoResp
    /\ shared = {}
    /\ fetchResp = NoFetch

InitGen ==
    /\ InitStoreIdle
    /\ InitTrIdle
    /\ InitClient
    /\ InitProxyIdle
    /\ InitPreviewIdle
    /\ InitChatIdle
    /\ genResp = NoGenResp
    /\ genCalls = 0
    /\ \/ /\ env = DefaultEnv
          /\ llmOut \in [ok : {TRUE}, text : Texts]
       \/ /\ env \in Envs
          /\ llmOut \in [ok : BOOLEAN, text : FewTexts]
          /\ llmOut.ok => KeyFor(env)

NextGen == GenerateCode

SpecGen == InitGen /\ [][NextGen]_vars

(***************************************************************************)
(* The translate endpoint on its own: the provider's answer is drawn at    *)
(* the start, the handler runs on it.                                      *)
(***************************************************************************)
InitTranslate ==
    /\ InitStoreIdle
    /\ InitTrIdle
    /\ InitClient
    /\ InitProxyIdle
    /\ InitPreviewIdle
    /\ InitChatIdle
    /\ genResp = NoGenResp
    /\ genCalls = 0
    /\ \/ /\ env = DefaultEnv
          /\ llmOut \in [ok : {TRUE}, text : TrTexts]
       \/ /\ env \in Envs
          /\ llmOut \in [ok : BOOLEAN, text : {<<>>, FullSchema}]
          /\ llmOut.ok => KeyFor(env)

NextTranslate == Translate

SpecTranslate == InitTranslate /\ [][NextTranslate]_vars

(***************************************************************************)
(* The client on its own: the endpoints answer its calls one at a time, in *)
(* any order, each with any of the answers the client tells apart.         *)
(***************************************************************************)
InitSession ==
    /\ InitStoreIdle /\ InitGenIdle /\ InitChatIdle /\ InitTrIdle /\ InitClient
    /\ InitProxyIdle
    /\ InitPreviewIdle

NextClient ==
    \/ Send
    \/ ChatAnswer
    \/ Complete
    \/ TranslateAnswer
    \/ GenerateAnswer
    \/ Iterate
    \/ HandleDeploy
    \/ DeployAnswer
    \/ ContinueEditing
    \/ ClearSavedState
    \/ Reload

SpecClient == InitSession /\ [][NextClient]_vars

(***************************************************************************)
(* The webhook proxy on its own: a preflight, then one request.            *)
(***************************************************************************)
InitProxy == InitSession

NextProxy == WebhookOPTIONS \/ ProxyPost

SpecProxy == InitProxy /\ [][NextProxy]_vars

(***************************************************************************)
(* Claims about the persistence / share layer, under Spec.                 *)
(***************************************************************************)

RecordsCreateOnly ==
    \A s \in shared :
        /\ s.id \in DOMAIN experiences
        /\ experiences[s.id] = NewRow(s.code, s.jsonSchema)

\* C2 witness: two records exist, a fetch has read one, and the last deploy
\* was refused.
RecordsCreateOnlyWitness ==
    /\ Cardinality(DOMAIN experiences) >= 2
    /\ fetchResp.kind = "page"
    /\ deployResp.status = 500

UnassignedIdNotFound ==
    [][\A id \in Ids :
          (SharePage(id) /\ id \notin {s.id : s \in shared}) =>
              fetchResp'.kind = "notFound"]_vars

\* C3 witness: some records exist and the last fetch, of an identifier that
\* is not among them, ended not found.
UnassignedIdNotFoundWitness ==
    /\ experiences # <<>>
    /\ fetchResp.id \in Ids \ {s.id : s \in shared}
    /\ fetchResp.kind = "notFound"

(***************************************************************************)
(* Claims about the code-generation endpoint and its sanitizer, under      *)
(* SpecGen.  raw is the text the model returned, code the text answered.   *)
(***************************************************************************)
Answered == genResp.status = 200

\* an occurrence of https://connorjoejoseph.app.n8n.cloud/webhook-test/...
\* (the prefix and at least one more character that is no space or quote)
HasWebhookUrl(s) ==
    \E i \in 1..(Len(s) - 2) :
        s[i] = WH /\ s[i + 1] = "/" /\ NotSpaceQuote(s[i + 2])

\* C4, as claimed: when the model's text holds the webhook URL pattern, the
\* answered text holds none and has at least one more /api/webhook-proxy
\* than the model's text.
WebhookUrlsRewritten ==
    (Answered /\ HasWebhookUrl(llmOut.text)) =>
        /\ ~HasWebhookUrl(genResp.code)
        /\ Count(genResp.code, ProxyPath) >= Count(llmOut.text, ProxyPath) + 1

\* C5, as claimed: the answered text never names the private webhook host.
NoPrivateHost ==
    Answered => \A i \in 1..Len(genResp.code) : ~HasHost(genResp.code[i])

\* one fenced block: fence, tag, newline, content, newline, fence
Block(tag, c) == <<"FENCE">> \o tag \o <<"NL">> \o c \o <<"NL", "FENCE">>
NoFence(s) == \A i \in 1..Len(s) : s[i] # "FENCE"
\* content that no rule after the fence has anything to say about
IsPlain(s) == \A i \in 1..Len(s) : s[i] \in {"a", "SP", "NL"}

\* C6, as claimed: a text that holds one well-formed fenced block, with or
\* without text before and after it, is answered as the fenced content.
FencedContentAnywhere ==
    \A pre \in Around, post \in Around, tag \in Tags, c \in Contents :
        (Answered /\ IsPlain(c) /\ llmOut.text = pre \o Block(tag, c) \o post)
            => genResp.code = Trim(c)

\* C6, amended: a text that is exactly one well-formed fenced block, with
\* nothing before the opening fence and nothing after the closing one, is
\* answered as the fenced content put through the rules that follow the
\* fence (plain content: the content itself, trimmed), with no fence left.
FencedContentExact ==
    \A tag \in Tags, c \in Contents :
        (Answered /\ NoFence(c) /\ llmOut.text = Block(tag, c)) =>
            /\ genResp.code = SanitizeBody(c)
            /\ NoFence(genResp.code)
            /\ IsPlain(c) => genResp.code = Trim(c)

\* C6 witness: a block tagged typescript is answered as its content.
FencedContentExactWitness ==
    /\ Answered
    /\ llmOut.text = Block(<<"typescript">>, <<"a", "NL">>)
    /\ genResp.code = <<"a">>

\* what the claim expects of a property of a style object
Neutral(prop) == IF prop \in SvgProps THEN BgNone ELSE prop
StyleText(ps) == <<"<div", "SP">> \o StyleObject(ps) \o <<">">>

\* C7, as claimed: in a style object every backgroundImage that is an
\* embedded SVG data URI becomes 'none', whatever quotes the URI holds, and
\* the other properties stay as they are.
SvgBackgroundsNeutralized ==
    \A ps \in PropSeqs :
        (Answered /\ llmOut.text = StyleText(ps)) =>
            genResp.code = StyleText([i \in 1..Len(ps) |-> Neutral(ps[i])])

\* C8, as claimed: the answered text is a fixed point of the sanitizer.
SanitizeIdempotent == Answered => Sanitize(genResp.code) = genResp.code

\* the stylesheets named by the claim
CssFiles == {<<"./App.css">>, <<"./styles.css">>, <<"globals.css">>,
             <<"./", "globals.css">>}

\* import '<file>' or import <name> from '<file>' at i, for a file of CssFiles
CssImportAt(s, i) ==
    LET j == i + 1 + RunLen(s, i + 1, "space")
        QuotedFile(k) ==
            \E f \in CssFiles :
                /\ IsQuote(At(s, k))
                /\ k + Len(f) + 1 <= Len(s)
                /\ SubSeq(s, k + 1, k + Len(f)) = f
                /\ IsQuote(s[k + Len(f) + 1])
    IN  /\ s[i] = "import" /\ j > i + 1
        /\ \/ QuotedFile(j)
           \/ /\ IsSpace(At(s, j + 1)) /\ At(s, j + 2) = "from"
              /\ IsSpace(At(s, j + 3)) /\ QuotedFile(j + 4)

\* C9, as claimed: the answered text imports none of the three stylesheets,
\* in any of the forms.
NoCssImport ==
    Answered => \A i \in 1..Len(genResp.code) : ~CssImportAt(genResp.code, i)

\* C10, as claimed: a success response never carries an empty artifact.
EmptyOutputIsError == Answered => genResp.code # <<>>

(***************************************************************************)
(* Claims about the translate endpoint, under SpecTranslate.               *)
(***************************************************************************)
TrHandled == trResp.status # 0

\* the request carries a transcript that is a non-empty string
TranscriptUsable(req) == req.body = "object" /\ req.transcript = "text"

\* C11, as claimed: a failing LLM call is answered with the generic
\* 'Internal server error', a model text that does not parse as JSON after
\* the fence is stripped with 'Failed to parse JSON response from AI model',
\* and a request whose transcript is missing, empty or not a string with
\* status 400 and without an LLM call.
TranslateFailuresDistinguished ==
    TrHandled =>
        /\ (trCalls = 1 /\ ~llmOut.ok) =>
               trResp = TrError(500, "Internal server error")
        /\ (trCalls = 1 /\ llmOut.ok
               /\ ~JsonParse(CleanJsonText(llmOut.text)).ok) =>
               trResp = TrError(500, "Failed to parse JSON response from AI model")
        /\ ~TranscriptUsable(trReq) => (trResp.status = 400 /\ trCalls = 0)

\* an object that has every fixed key, none of them null
IsConfigSchema(v) ==
    /\ v.type = "object"
    /\ \A k \in FixedKeySet : \E m \in v.members : m[1] = k /\ m[2] # "null"

\* C12, as claimed: what the translate endpoint answers as a success is an
\* object in which no fixed key is omitted and none is null.
TranslateAnswersSchema == trResp.status = 200 => IsConfigSchema(trResp.schema)

(***************************************************************************)
(* Claims about the client, under SpecClient.                              *)
(***************************************************************************)
\* the calls to the two LLM endpoints that are in flight for the latest
\* user action
LlmCallsInFlight ==
    {i \in 1..Len(calls) :
        calls[i].action = "latest" /\ calls[i].kind \in {"translate", "generate"}}

\* C13, as claimed: a chat completion and an iterate request make one
\* translate call and at most one generate-code call, and no two of the
\* action's LLM calls are in flight at once.
OneChainPerAction ==
    chain.kind \in {"chat", "iterate"} =>
        /\ chain.translate = 1
        /\ chain.generate <= 1
        /\ Cardinality(LlmCallsInFlight) <= 1

\* one of the user actions of the claim is taken: a chat message is sent, an
\* iteration is requested, a deploy is started, or the session is reset
UserActionStarts == Send \/ Iterate \/ HandleDeploy \/ ClearSavedState

\* C14, as claimed: while a call of a chain is in flight, no send, iterate,
\* deploy or reset is taken.
NoActionWhileInFlight == [][calls # <<>> => ~UserActionStarts]_vars

\* the mode a chain was started from
StartMode(c) == IF c.chain = "chat" THEN "chatting" ELSE "editing"

\* a call that a handler of a chat or iterate chain made fails
ChainStepFails(i) ==
    /\ calls[i].chain \in {"chat", "iterate"}
    /\ TranslateFailure(i) \/ GenerateFailure(i)

\* C15, as claimed: when the translate or the generate step of a chain
\* fails, the page ends in the mode the chain was started from, chat mode
\* for a chat completion and editor mode for an iteration.
FailureReturnsToStart ==
    [][\A i \in 1..Len(calls) :
          ChainStepFails(i) => home'.state = StartMode(calls[i])]_vars

\* the schema, the artifact and the transcript of the session, in the page
\* and in the storage
SessionData(h, st) ==
    <<h.jsonSchema, h.generatedCode, h.transcript,
      GetItem(st, KSchema), GetItem(st, KCode), GetItem(st, KTranscript)>>

Rehydrated(h, st) ==
    /\ <<h.state>> = GetItem(st, KState)
    /\ h.transcript = GetItem(st, KTranscript)
    /\ h.generatedCode = GetItem(st, KCode)
    /\ IF GetItem(st, KSchema) = <<>> THEN ~Truthy(h.jsonSchema)
       ELSE h.jsonSchema = JsonParse(GetItem(st, KSchema)).value

\* C17, as claimed: a page load rehydrates the transcript, the schema, the
\* artifact and the mode that the storage held when the page was loaded.
LoadRehydratesSaved == [][Reload => Rehydrated(home', storage)]_vars

\* the text s is the beginning of the text t
IsPrefix(s, t) == Len(s) <= Len(t) /\ SubSeq(t, 1, Len(s)) = s

\* C18, as claimed: between two resets every change of the transcript, in
\* the page and in the storage, extends the previous value.  (A load of the
\* page is left out: what it does to the transcript is the subject of C17.)
TranscriptAppendOnly ==
    [][~ClearSavedState /\ ~Reload =>
          /\ IsPrefix(home.transcript, home'.transcript)
          /\ IsPrefix(GetItem(storage, KTranscript),
                      GetItem(storage', KTranscript))]_vars

\* the replies of the mounted chat that carried the completion flag
FlaggedReplies ==
    {k \in 1..Len(chat.messages) : chat.messages[k].flag}

\* the mounted chat has handed off once if it has a flagged reply and never
\* otherwise, and the flagged reply is its last message, with no call of
\* the chat in flight
HandoffGated ==
    /\ chat.handoffs = Cardinality(FlaggedReplies)
    /\ chat.handoffs <= 1
    /\ \A k \in FlaggedReplies : k = Len(chat.messages) /\ ~chat.isLoading

\* a step that schedules onComplete is the answer to a chat call, with the
\* transcript of the messages of that call and of the reply
HandoffCarriesTranscript ==
    Len(timers') > Len(timers) =>
        \E i \in 1..Len(calls), reply \in Replies :
            LET all == Append(calls[i].messages, Message("cupid", reply, TRUE))
            IN  /\ calls[i].kind = "chat"
                /\ timers' = Append(timers, TranscriptOf(all))
                /\ calls[i].live =>
                       chat'.messages = all /\ chat'.handoffs = chat.handoffs + 1

\* C20: the chat schedules onComplete only at a reply whose completion flag
\* is true, once, with the transcript of all messages up to and including
\* that reply, and sends no message after it.
HandoffOnlyWhenComplete ==
    /\ []HandoffGated
    /\ [][HandoffCarriesTranscript /\ (chat.handoffs > 0 => ~Send)]_vars

\* a chat of two turns whose second reply carried the flag has handed off
\* its whole transcript
HandoffOnlyWhenCompleteWitness ==
    /\ home.state = "chatting"
    /\ chat.handoffs = 1
    /\ Len(chat.messages) = 5
    /\ chat.isComplete
    /\ timers = <<TranscriptOf(chat.messages)>>

(***************************************************************************)
(* Claims about the webhook proxy, under SpecProxy.                        *)
(***************************************************************************)
\* the proxy has handled a request whose body parses as JSON
ProxyForwarded == proxyReq # NoProxyReq /\ JsonParse(proxyReq).ok

\* C19, as claimed: for a request with a parseable body one POST is made to
\* the fixed URL with that body; when the webhook answers, the response
\* carries its status and its text, and when the call fails the response is
\* a 500 with success false; every response carries the three
\* cross-origin headers.
ProxyPassesOn ==
    /\ proxyResp # NoProxyResp => proxyResp.headers = CorsHeaders
    /\ ProxyForwarded =>
          /\ Len(upstreamPosts) = 1
          /\ upstreamPosts[1].url = WEBHOOK_URL
          /\ upstreamPosts[1].method = "POST"
          /\ JsonParse(upstreamPosts[1].body) = JsonParse(proxyReq)
          /\ upstream.failed => proxyResp.status = 500 /\ ~proxyResp.success
          /\ ~upstream.failed =>
                /\ proxyResp.status = upstream.status
                /\ proxyResp.data = upstream.text

(***************************************************************************)
(* The chat endpoint on its own: the provider's two answers are drawn at   *)
(* the start, the handler runs on them.                                    *)
(***************************************************************************)
InitChat ==
    /\ InitStoreIdle
    /\ InitTrIdle
    /\ InitClient
    /\ InitProxyIdle
    /\ InitPreviewIdle
    /\ genResp = NoGenResp
    /\ genCalls = 0
    /\ chatResp = NoChatResp
    /\ chatCalls = 0
    /\ \/ /\ env = DefaultEnv
          /\ llmOut \in [ok : {TRUE}, text : ReplyTexts]
          /\ checkOut \in [ok : {TRUE}, text : CheckTexts]
       \/ /\ env \in Envs
          /\ llmOut \in [ok : BOOLEAN, text : {<<"r1">>}]
          /\ checkOut \in [ok : BOOLEAN, text : {<<"{", "hasEnoughInfo", ":", "true", "}">>}]
          /\ llmOut.ok \/ checkOut.ok => KeyFor(env)

NextChat == CupidChat

SpecChat == InitChat /\ [][NextChat]_vars

(***************************************************************************)
(* Claims about the chat endpoint, under SpecChat.                         *)
(***************************************************************************)
\* the handler has made both calls and the completion check returned a text
ChatJudged == chatCalls = 2 /\ checkOut.ok

\* the completion check's text parses to an object that says enough
\* information was gathered
SaysEnough ==
    LET r == JsonParse(CleanJsonText(checkOut.text))
    IN  /\ r.ok
        /\ r.value.type = "object"
        /\ <<"hasEnoughInfo", "true">> \in r.value.members

\* C21, as claimed: for every text the completion check returns, the chat
\* endpoint answers 200 with the reply text and a completion flag that is a
\* boolean, true only if the check says enough information was gathered and
\* false when the check's text does not parse, and the answer has no
\* missing-points member.
ChatAnswersBooleanFlag ==
    ChatJudged =>
        /\ chatResp.status = 200
        /\ chatResp.response = llmOut.text
        /\ chatResp.isComplete \in {"true", "false"}
        /\ chatResp.isComplete = "true" => SaysEnough
        /\ ~JsonParse(CleanJsonText(checkOut.text)).ok => chatResp.isComplete = "false"
        /\ "missingPoints" \notin chatResp.keys

(***************************************************************************)
(* The three LLM endpoints under every setting of the environment: the     *)
(* settings and the provider's answers are drawn at the start, then the    *)
(* endpoints are called in any order.                                      *)
(***************************************************************************)
InitEndpoints ==
    /\ InitStoreIdle
    /\ InitTrIdle
    /\ InitClient
    /\ InitProxyIdle
    /\ InitPreviewIdle
    /\ genResp = NoGenResp
    /\ genCalls = 0
    /\ chatResp = NoChatResp
    /\ chatCalls = 0
    /\ env \in Envs
    /\ llmOut \in [ok : BOOLEAN, text : {<<>>, <<"a">>}]
    /\ checkOut \in [ok : BOOLEAN, text : {<<"{", "hasEnoughInfo", ":", "true", "}">>}]
    /\ llmOut.ok \/ checkOut.ok => KeyFor(env)

NextEndpoints == Translate \/ GenerateCode \/ CupidChat

SpecEndpoints == InitEndpoints /\ [][NextEndpoints]_vars

(***************************************************************************)
(* Claims about the credentials, under SpecEndpoints.                      *)
(***************************************************************************)
\* the configuration errors of the three endpoints
ConfigErrors ==
    {"GOOGLE_GENAI_API_KEY is not configured",
     "OPENAI_GENAI_API_KEY is not configured"}

\* an endpoint that has answered, answered a configuration error and made
\* no LLM call
RefusedUnconfigured ==
    /\ trResp # NoTrResp => trResp.error \in ConfigErrors /\ trCalls = 0
    /\ genResp # NoGenResp => genResp.error \in ConfigErrors /\ genCalls = 0
    /\ chatResp # NoChatResp => chatResp = ChatConfigError /\ chatCalls = 0

\* C30, as claimed: for every value of the provider setting, the three
\* endpoints call the provider only if the credential of the provider they
\* call is configured; otherwise they answer a configuration error, whatever
\* the request body, and make no LLM call.
CredentialGuardsCalls ==
    /\ trCalls + genCalls + chatCalls > 0 => KeyFor(env)
    /\ ~KeyFor(env) => RefusedUnconfigured

(***************************************************************************)
(* The previewer on its own: the origin and the code are drawn at the      *)
(* start, the component renders.                                           *)
(***************************************************************************)
InitPreview ==
    /\ InitStoreIdle /\ InitGenIdle /\ InitChatIdle /\ InitTrIdle /\ InitClient
    /\ InitProxyIdle
    /\ preview \in [apiBaseUrl : Origins, code : PreviewCodes, appCode : {<<"none">>}]

NextPreview == PreviewRender

SpecPreview == InitPreview /\ [][NextPreview]_vars

(***************************************************************************)
(* Claims about the previewer, under SpecPreview.                          *)
(***************************************************************************)
\* the text has a quoted literal that is exactly the relative proxy path
HasQuotedPath(s) ==
    \E i \in 1..Len(s) :
        /\ IsQuote(s[i])
        /\ <<At(s, i + 1), At(s, i + 2)>> = ProxyPath
        /\ At(s, i + 3) = s[i]

\* C24, as claimed: after processCode with a non-empty base URL the code
\* handed to the sandbox has no quoted literal that is exactly the relative
\* proxy path and no webhook URL of the pattern, whatever references the
\* code had.
NoRelativeReferenceLeft ==
    preview.apiBaseUrl # "" /\ preview.appCode # <<"none">> =>
        /\ ~HasQuotedPath(preview.appCode)
        /\ ~HasWebhookUrl(preview.appCode)

(***************************************************************************)
(* Claims about step 7 of the sanitizer, under SpecGen.                    *)
(***************************************************************************)
\* the text that reaches step 7: the model's text after the fence and
\* rules 2 to 6 (lines 120-167)
ReachesStyleRepair(raw) ==
    DropDangling(RewriteSvgBackground(RewriteFetchFallback(RewriteWebhook(
        Trim(StripLeadingLabel(Trim(Unfence(raw))))))))

\* the quotes of a style object's content are unbalanced
OddQuotes(ps) ==
    \/ Count(Join(ps), <<"'">>) % 2 # 0
    \/ Count(Join(ps), <<"DQ">>) % 2 # 0

\* what the claim expects of step 7 for the style object with properties ps
RepairExpected(ps) ==
    <<"<div", "SP">> \o
    StyleObject([i \in 1..Len(ps) |->
                    IF OddQuotes(ps) /\ ps[i][1] = "backgroundImage:"
                    THEN BgNone ELSE ps[i]])
    \o <<">">>

\* C25, as claimed: a style object that reaches step 7 with an odd number of
\* single or of double quotes leaves it with every backgroundImage set to
\* exactly 'none' and its other properties unchanged; one with even counts
\* is left untouched.
UnbalancedStyleRepaired ==
    \A ps \in RepairSeqs :
        (Answered /\ ReachesStyleRepair(llmOut.text) = <<"<div", "SP">> \o StyleObject(ps) \o <<">">>)
            => RepairUnbalancedStyle(ReachesStyleRepair(llmOut.text)) = RepairExpected(ps)

(***************************************************************************)
(* Claims about the client and the endpoints it calls, under SpecClient.   *)
(***************************************************************************)
\* body.jsonSchema of the deploy request c, as the deploy endpoint reads it
\* (BuilderEnvironment.tsx 47: the body that is sent has the member code only)
DeployBodySchema(c) == IF c.schema = JsonNone THEN "undefined" ELSE "S1"

\* C22, as claimed: the record that the deploy endpoint creates for a deploy
\* request of the editor has the artifact text of the session and, when the
\* session holds a schema at deploy time, a schema column that is not null.
DeployStoresSchema ==
    [][HandleDeploy =>
          LET c == calls'[Len(calls) + 1]
              row == NewRow(c.text, DeployBodySchema(c))
          IN  /\ c.kind = "deploy"
              /\ row.code = home.generatedCode
              /\ Truthy(home.jsonSchema) => row.json_schema # "NULL"]_vars

\* the calls that a step issued: calls in flight keep their place and a
\* new call is put behind them, so these are the calls of cs2 behind the
\* ones of cs1
NewCalls(cs1, cs2) ==
    {cs2[j] : j \in (Len(cs1) + 1)..Len(cs2)}

\* an iterate request of a session with a schema issues one call, a
\* translate call on the transcript of the page extended with the request;
\* without a schema it issues none and changes nothing
IterateStartsAtTranslator ==
    \A message \in IterationRequests :
        BuilderHandleIterate(message) =>
            IF Truthy(home.jsonSchema)
            THEN \E c \in NewCalls(calls, calls') :
                    /\ NewCalls(calls, calls') = {c}
                    /\ c.kind = "translate"
                    /\ c.text = UpdatedTranscript(home.transcript, message)
            ELSE /\ calls' = calls
                 /\ home' = home
                 /\ storage' = storage

\* when the translate call of an iterate request answers a schema, the page
\* holds that schema and one call is issued, a generate-code call on it
IterateStoresThenGenerates ==
    \A i \in 1..Len(calls), schema \in ClientSchemas :
        (calls[i].chain = "iterate" /\ TranslateOk(i, schema)) =>
            /\ home'.jsonSchema = schema
            /\ \E c \in NewCalls(RemoveAt(calls, i), calls') :
                  /\ NewCalls(RemoveAt(calls, i), calls') = {c}
                  /\ c.kind = "generate"
                  /\ c.schema = schema

\* C23, as claimed: an iterate request re-enters the pipeline at the
\* translator: with a schema in the session it issues a translate call on
\* the stored transcript extended with the request, then stores the schema
\* that is returned, then issues a generate-code call on that schema;
\* without a schema it issues no call and changes no state.
IterateReentersAtTranslator ==
    [][IterateStartsAtTranslator /\ IterateStoresThenGenerates]_vars

\* the session as clearSavedState leaves it: chat mode, no transcript, no
\* schema, no artifact
SessionCleared(h) ==
    /\ h.state = "chatting"
    /\ h.transcript = <<>>
    /\ h.jsonSchema = JsonNull
    /\ h.generatedCode = <<>>

\* C27, as claimed: after Start New the session stays cleared until a new
\* chat is completed: a translate or generate-code call that was in flight
\* at the reset (the only such calls a cleared session can have, a completed
\* chat stores its transcript) writes nothing into the session when it is
\* answered, so transcript, schema and artifact stay empty and the UI mode
\* stays chat.
ResetStaysCleared ==
    [][(SessionCleared(home) /\ (TranslateAnswer \/ GenerateAnswer))
           => SessionCleared(home')]_vars

\* the page shows the editor and no call is in flight
EditingAtRest(h, cs) == h.state = "editing" /\ cs = <<>>

\* the artifact that a generate-code answer puts on the page comes from the
\* schema the page holds after that answer
ArtifactOfStoredSchema ==
    \A i \in 1..Len(calls), code \in ClientCodes :
        GenerateOk(i, code) => calls[i].schema = home'.jsonSchema

InTranscript(t) == \E k \in 1..Len(t) : t[k] = "Oops"
InTurnList(ms) == \E k \in 1..Len(ms) : ms[k].content = "Oops"

\* C29, as claimed: the turn list sent to the chat endpoint and the
\* transcript handed to the translator hold only the greeting, the user's
\* messages and the model's replies: the notice that the chat shows after a
\* failed request is in no turn list of a chat call in flight, in no
\* transcript waiting to be handed off and in no text of a translate call.
ErrorNoticeStaysLocal ==
    /\ \A i \in 1..Len(calls) :
          /\ calls[i].kind = "chat" => ~InTurnList(calls[i].messages)
          /\ calls[i].kind = "translate" => ~InTranscript(calls[i].text)
    /\ \A i \in 1..Len(timers) : ~InTranscript(timers[i])
====
